---- MODULE Spec2Model ----
(***************************************************************************)
(* Al-Quran API worker (src/src/index.js): text normalisation, the         *)
(* document model, the search engine and the HTTP handlers.                *)
(*                                                                         *)
(* Strings are sequences of Unicode code points (UTF-16 code units of the  *)
(* Basic Multilingual Plane), so that the regular expressions of the code  *)
(* are modelled by the character ranges they name.                         *)
(***************************************************************************)
EXTENDS Integers, Sequences, FiniteSets, TLC

VARIABLES
    quranData,      \* the primary corpus (import quranData)
    translations,   \* the own properties of the `translations` object
    normArg,        \* argument of a call of ArabicTextUtils.normalize
    normRes,        \* sequence of the results of normalize applied once, twice
    searchCall,     \* arguments of the last call of Document.searchText
    searchResults,  \* what that call returned
    searchTerms,    \* TokenSearch.searchTerms
    options,        \* TokenSearch.options
    results,        \* what TokenSearch.getResults returned (<<>> before the call)
    tsState,        \* "building" until getResults is called, then "done"
    request,        \* the HTTP request being answered
    response,       \* the Response the worker returned for it
    searched,       \* the data sets the search loops of the handler ran over
    walk,           \* a traversal with getAllChapters / getAllVerses and its lookups
    inflight,       \* the invocations of fetch in progress in the isolate
    deploy          \* a run of a deployment script: its position and the files

vars == <<quranData, translations, normArg, normRes, searchCall, searchResults,
          searchTerms, options, results, tsState, request, response, searched,
          walk, inflight, deploy>>

----------------------------------------------------------------------------
(* Bounds of the model *)

\* longest argument given to normalize in SpecNormalize
MaxTextLen == 4
\* most verses of a corpus (over all its chapters)
MaxCorpusVerses == 2
\* most terms added to one TokenSearch
MaxTerms == 2
\* most invocations of fetch in progress at once
MaxInFlight == 2
\* the verses of the large corpus of SpecLimit
LargeCorpusVerses == 101

----------------------------------------------------------------------------
(* Characters *)

Space == 32

\* JavaScript \s : WhiteSpace and LineTerminator code points
WhiteSpaceChars ==
    {9, 10, 11, 12, 13, 32, 160, 5760, 8232, 8233, 8239, 8287, 12288, 65279}
        \cup (8192..8202)

IsSpace(c) == c \in WhiteSpaceChars

\* /[آأإٱ]/ : U+0622, U+0623, U+0625, U+0671
AlifForms == {1570, 1571, 1573, 1649}

\* 'ا' U+0627
Alif == 1575

\* /ة/ U+0629 and 'ه' U+0647
TehMarbuta == 1577
Heh == 1607

\* /[ً-ٰٟٱ]/
IsDiacritic(c) == (c >= 1611 /\ c <= 1631) \/ c = 1648 \/ c = 1649

\* String.prototype.replace(/[set]/g, ch) : every character of the set becomes ch
ReplaceChars(s, set, ch) == [i \in 1..Len(s) |-> IF s[i] \in set THEN ch ELSE s[i]]

\* the characters of the range replaced by a space instead of removed
DiacriticsToSpaces(s) == [i \in 1..Len(s) |-> IF IsDiacritic(s[i]) THEN Space ELSE s[i]]

\* String.prototype.replace(/[range]/g, '') : the characters of the range are removed
RemoveDiacritics(s) == SelectSeq(s, LAMBDA c : ~IsDiacritic(c))

\* the longest suffix of s that does not start with white space
RECURSIVE SkipSpaces(_)
SkipSpaces(s) ==
    IF s = <<>> THEN <<>>
    ELSE IF IsSpace(Head(s)) THEN SkipSpaces(Tail(s))
    ELSE s

\* String.prototype.replace(/\s+/g, ' ') : every maximal run of white space becomes one space
RECURSIVE CollapseSpaces(_)
CollapseSpaces(s) ==
    IF s = <<>> THEN <<>>
    ELSE IF IsSpace(Head(s)) THEN <<Space>> \o CollapseSpaces(SkipSpaces(Tail(s)))
    ELSE <<Head(s)>> \o CollapseSpaces(Tail(s))

\* the longest prefix of s that does not end with white space
RECURSIVE DropTrailingSpaces(_)
DropTrailingSpaces(s) ==
    IF s = <<>> THEN <<>>
    ELSE IF IsSpace(s[Len(s)]) THEN DropTrailingSpaces(SubSeq(s, 1, Len(s) - 1))
    ELSE s

\* String.prototype.trim
Trim(s) == DropTrailingSpaces(SkipSpaces(s))

\* String.prototype.toLowerCase on the characters of the model: the Latin
\* capitals A-Z map to a-z; Arabic letters, digits and white space have no case
ToLowerCase(s) ==
    [i \in 1..Len(s) |-> IF s[i] >= 65 /\ s[i] <= 90 THEN s[i] + 32 ELSE s[i]]

\* normalize with trim() called first, before the replacements
normalizeTrimFirst(text) ==
    ToLowerCase(CollapseSpaces(RemoveDiacritics(
        ReplaceChars(ReplaceChars(Trim(text), AlifForms, Alif), {TehMarbuta}, Heh))))

\* ArabicTextUtils.normalize
normalize(text) ==
    ToLowerCase(Trim(CollapseSpaces(RemoveDiacritics(
        ReplaceChars(ReplaceChars(text, AlifForms, Alif), {TehMarbuta}, Heh)))))

\* String.prototype.includes : q occurs in s as a contiguous substring
Includes(s, q) ==
    \E i \in 0..(Len(s) - Len(q)) : SubSeq(s, i + 1, i + Len(q)) = q

\* String.prototype.split(/\s+/) : the pieces between the runs of white space,
\* an empty piece before a leading run and after a trailing run included
RECURSIVE SplitFrom(_, _)
SplitFrom(s, cur) ==
    IF s = <<>> THEN <<cur>>
    ELSE IF IsSpace(Head(s)) THEN <<cur>> \o SplitFrom(SkipSpaces(Tail(s)), <<>>)
    ELSE SplitFrom(Tail(s), Append(cur, Head(s)))

Split(s) == SplitFrom(s, <<>>)

\* all strings of at most n characters over the alphabet
RECURSIVE StringsUpTo(_, _)
StringsUpTo(alphabet, n) ==
    IF n = 0 THEN {<<>>}
    ELSE LET shorter == StringsUpTo(alphabet, n - 1)
         IN  shorter \cup {Append(s, c) : s \in shorter, c \in alphabet}

----------------------------------------------------------------------------
(* The loaded data *)

\* verse texts of the model's corpora: "a b", "ab", and
\* ALEF-WITH-HAMZA-ABOVE FATHA SPACE BEH
VerseTexts == {<<97, 32, 98>>, <<97, 98>>, <<1571, 1614, 32, 1576>>}

\* the ways to cut n verses into consecutive non-empty chapters
RECURSIVE Compositions(_)
Compositions(n) ==
    IF n = 0 THEN {<<>>}
    ELSE UNION {{<<k>> \o rest : rest \in Compositions(n - k)} : k \in 1..n}

\* chapters numbered from n, verses numbered from 1 in each chapter, as in
\* quran-data.json
RECURSIVE BuildChapters(_, _, _)
BuildChapters(texts, sizes, n) ==
    IF sizes = <<>> THEN <<>>
    ELSE <<[number |-> n,
            verses |-> [v \in 1..Head(sizes) |-> [number |-> v, text |-> texts[v]]]]>>
         \o BuildChapters(SubSeq(texts, Head(sizes) + 1, Len(texts)), Tail(sizes), n + 1)

\* the corpora of the model: every division into chapters of every sequence
\* of 1..MaxCorpusVerses verse texts
Corpora ==
    UNION {{[chapters |-> BuildChapters(texts, sizes, 1)] :
                texts \in [1..n -> VerseTexts], sizes \in Compositions(n)} :
           n \in 1..MaxCorpusVerses}

\* a corpus of one chapter of two verses
SampleCorpus == [chapters |-> BuildChapters(<<<<97, 32, 98>>, <<97, 98>>>>, <<2>>, 1)]

\* the keys of the `translations` object literal
TranslationKeys == {"en.hilali", "ms.basmeih", "zh.jian", "ta.tamil"}

\* translation trees of the model: a full one (chapter 1 with "A, b" and "ab",
\* chapter 2 with "b") and a partial one (chapter 1 with "a b" only)
TranslationTrees ==
    {[chapters |-> BuildChapters(<<<<65, 44, 32, 98>>, <<97, 98>>, <<98>>>>, <<2, 1>>, 1)],
     [chapters |-> BuildChapters(<<<<97, 32, 98>>>>, <<1>>, 1)]}

\* every translation holds the partial tree
SampleTranslations ==
    [k \in TranslationKeys |-> [chapters |-> BuildChapters(<<<<97, 32, 98>>>>, <<1>>, 1)]]

\* a translation tree whose chapters are stored out of order: chapter 2 with
\* "b", then chapter 1 with "A, b" and "ab"
UnorderedTree ==
    LET ordered == BuildChapters(<<<<65, 44, 32, 98>>, <<97, 98>>, <<98>>>>, <<2, 1>>, 1)
    IN  [chapters |-> <<ordered[2], ordered[1]>>]

\* the stores of the model: the English and the Malay translation each hold
\* one of the trees; the Chinese tree is the English one and the Tamil tree
\* the Malay one
TranslationStores ==
    {store \in [TranslationKeys -> TranslationTrees] :
        /\ store["zh.jian"] = store["en.hilali"]
        /\ store["ta.tamil"] = store["ms.basmeih"]}

\* the stores whose Malay and Tamil translations are the tree stored out of
\* order
UnorderedStores ==
    {store \in [TranslationKeys -> TranslationTrees \cup {UnorderedTree}] :
        /\ store["en.hilali"] \in TranslationTrees
        /\ store["zh.jian"] = store["en.hilali"]
        /\ store["ms.basmeih"] = UnorderedTree
        /\ store["ta.tamil"] = UnorderedTree}

----------------------------------------------------------------------------
(* Document, Chapter, Verse, Token *)

\* the value null
Null == [null |-> TRUE]

\* Array.prototype.find, given the elements that satisfy the test: the first
\* of them, else undefined (every caller turns undefined into null or tests
\* it with !)
Find(hits) == IF hits = <<>> THEN Null ELSE Head(hits)

\* getChapter with >= in place of === in the find test
getChapterAtLeast(chapterNumber) ==
    LET chapter == Find(SelectSeq(quranData.chapters, LAMBDA ch : ch.number >= chapterNumber))
    IN  IF chapter # Null THEN [data |-> chapter] ELSE Null

\* Document.getChapter : a Chapter wrapping the data, or null
getChapter(chapterNumber) ==
    LET chapter == Find(SelectSeq(quranData.chapters, LAMBDA ch : ch.number = chapterNumber))
    IN  IF chapter # Null THEN [data |-> chapter] ELSE Null

\* Chapter.getVerse reading verseNumber as an index of the array
chapterGetVerseByIndex(chapter, verseNumber) ==
    IF verseNumber + 1 \in 1..Len(chapter.data.verses)
    THEN [data |-> chapter.data.verses[verseNumber + 1],
          chapterNumber |-> chapter.data.number]
    ELSE Null

\* Chapter.getVerse : a Verse wrapping the data and the chapter number, or null
chapterGetVerse(chapter, verseNumber) ==
    LET verse == Find(SelectSeq(chapter.data.verses, LAMBDA v : v.number = verseNumber))
    IN  IF verse # Null THEN [data |-> verse, chapterNumber |-> chapter.data.number]
        ELSE Null

\* Document.getVerse
getVerse(chapterNumber, verseNumber) ==
    LET chapter == getChapter(chapterNumber)
    IN  IF chapter # Null THEN chapterGetVerse(chapter, verseNumber) ELSE Null

\* Document.getAllChapters
getAllChapters == [i \in 1..Len(quranData.chapters) |-> [data |-> quranData.chapters[i]]]

\* Chapter.getAllVerses
chapterGetAllVerses(chapter) ==
    [i \in 1..Len(chapter.data.verses) |->
        [data |-> chapter.data.verses[i], chapterNumber |-> chapter.data.number]]

\* the template `${chapter}:${verse}`
Location(chapterNumber, verseNumber) ==
    ToString(chapterNumber) \o ":" \o ToString(verseNumber)

\* Token.getLocation
tokenGetLocation(token) ==
    ToString(token.chapterNumber) \o ":" \o ToString(token.verseNumber)
        \o ":" \o ToString(token.tokenNumber)

\* Verse.getTokens with the tokens numbered by their array index
getTokensFromZero(verse) ==
    LET parts == SelectSeq(Split(verse.data.text), LAMBDA t : Len(t) > 0)
    IN  [i \in 1..Len(parts) |->
            [text |-> parts[i], chapterNumber |-> verse.chapterNumber,
             verseNumber |-> verse.data.number, tokenNumber |-> i - 1]]

\* Verse.getTokens : the non-empty pieces of the text, numbered from 1
getTokens(verse) ==
    LET parts == SelectSeq(Split(verse.data.text), LAMBDA t : Len(t) > 0)
    IN  [i \in 1..Len(parts) |->
            [text |-> parts[i], chapterNumber |-> verse.chapterNumber,
             verseNumber |-> verse.data.number, tokenNumber |-> i]]

\* Verse.getLocation
verseGetLocation(verse) ==
    ToString(verse.chapterNumber) \o ":" \o ToString(verse.data.number)

\* the (chapter, verse) pairs in the order of the two nested for loops
RECURSIVE Traversal(_)
Traversal(chapters) ==
    IF chapters = <<>> THEN <<>>
    ELSE [i \in 1..Len(Head(chapters).verses) |->
             [chapter |-> Head(chapters), verse |-> Head(chapters).verses[i]]]
         \o Traversal(Tail(chapters))

\* Array.prototype.includes
Contains(seq, x) == \E i \in 1..Len(seq) : seq[i] = x

\* the test of one verse with the substring branch reading verse.text as
\* stored
verseMatchesRawSubstring(text, normalizedQuery, opts) ==
    LET normalized == IF opts.normalize THEN normalize(text) ELSE text
        searchedText == IF ~opts.caseSensitive THEN ToLowerCase(normalized)
                        ELSE normalized
    IN  IF opts.exact THEN Contains(Split(searchedText), normalizedQuery)
        ELSE Includes(text, normalizedQuery)

\* the test of one verse in Document.searchText. The query compared is
\* normalizedQuery, computed once before the loops; the lower-cased `query`
\* of the loop body is never read
verseMatches(text, normalizedQuery, opts) ==
    LET normalized == IF opts.normalize THEN normalize(text) ELSE text
        searchedText == IF ~opts.caseSensitive THEN ToLowerCase(normalized)
                        ELSE normalized
    IN  IF opts.exact THEN Contains(Split(searchedText), normalizedQuery)
        ELSE Includes(searchedText, normalizedQuery)

\* Document.searchText comparing the query as given, never normalized
searchTextRawQuery(query, opts) ==
    LET hits == SelectSeq(Traversal(quranData.chapters),
                          LAMBDA p : verseMatches(p.verse.text, query, opts))
    IN  [i \in 1..Len(hits) |->
            [chapterNumber |-> hits[i].chapter.number,
             verseNumber |-> hits[i].verse.number,
             verseText |-> hits[i].verse.text,
             location |-> Location(hits[i].chapter.number, hits[i].verse.number)]]

\* Document.searchText
searchText(query, opts) ==
    LET normalizedQuery == IF opts.normalize THEN normalize(query) ELSE query
        hits == SelectSeq(Traversal(quranData.chapters),
                          LAMBDA p : verseMatches(p.verse.text, normalizedQuery, opts))
    IN  [i \in 1..Len(hits) |->
            [chapterNumber |-> hits[i].chapter.number,
             verseNumber |-> hits[i].verse.number,
             verseText |-> hits[i].verse.text,
             location |-> Location(hits[i].chapter.number, hits[i].verse.number)]]

----------------------------------------------------------------------------
(* TokenSearch *)

\* a seen-set test that never finds the location
neverSeen(seenLocations, locationKey) == FALSE

\* seenLocations.has(locationKey)
seenHas(seenLocations, locationKey) == locationKey \in seenLocations

\* the filter of getResults: the tokens whose text, normalized when the
\* normalize option is set, equals or includes term.text
matchingTokens(term, opts, tokens) ==
    SelectSeq(tokens, LAMBDA token :
        LET tokenText == IF opts.normalize THEN normalize(token.text) ELSE token.text
        IN  IF term.type = "exact" THEN tokenText = term.text
            ELSE Includes(tokenText, term.text))

\* the record pushed for a location not seen before
resultRecord(term, opts, result) ==
    LET verse == getVerse(result.chapterNumber, result.verseNumber)
        matching == matchingTokens(term, opts, getTokens(verse))
    IN  [chapterNumber |-> result.chapterNumber,
         verseNumber |-> result.verseNumber,
         verseText |-> result.verseText,
         location |-> result.location,
         matchingTokens |->
            [i \in 1..Len(matching) |->
                [number |-> matching[i].tokenNumber,
                 text |-> matching[i].text,
                 location |-> tokenGetLocation(matching[i])]]]

\* the inner loop of getResults over the searchResults of one term. When the
\* loop reaches found[i], seenLocations holds what it held before the loop
\* and the locations of found[1..i-1], each of which was added or was
\* already there; found[i] is pushed iff has() is false
addResults(term, opts, found, acc) ==
    LET seenAt(i) == acc.seenLocations \cup {found[j].location : j \in 1..(i - 1)}
        pushed == SelectSeq([i \in 1..Len(found) |-> i],
                            LAMBDA i : ~seenHas(seenAt(i), found[i].location))
    IN  [results |-> acc.results
                        \o [k \in 1..Len(pushed) |->
                               resultRecord(term, opts, found[pushed[k]])],
         seenLocations |-> acc.seenLocations
                              \cup {found[j].location : j \in 1..Len(found)}]

\* the outer loop of getResults over the search terms
RECURSIVE termLoop(_, _, _)
termLoop(terms, opts, acc) ==
    IF terms = <<>> THEN acc
    ELSE termLoop(Tail(terms), opts,
             addResults(Head(terms), opts,
                 searchText(Head(terms).text,
                     [exact |-> Head(terms).type = "exact",
                      normalize |-> opts.normalize,
                      caseSensitive |-> opts.caseSensitive]),
                 acc))

\* TokenSearch.getResults
getResults(terms, opts) ==
    termLoop(terms, opts, [results |-> <<>>, seenLocations |-> {}]).results

----------------------------------------------------------------------------
(* Request parameters and JavaScript helpers of the fetch handler *)

\* a query-string parameter: URLSearchParams.get returns null when absent
Absent == [present |-> FALSE, value |-> <<>>]
Param(value) == [present |-> TRUE, value |-> value]

\* the result NaN of parseInt
NaN == [nan |-> TRUE, value |-> 0]

IsDigit(c) == c >= 48 /\ c <= 57

\* the longest prefix of s made of decimal digits
RECURSIVE LeadingDigits(_)
LeadingDigits(s) ==
    IF s = <<>> \/ ~IsDigit(Head(s)) THEN <<>>
    ELSE <<Head(s)>> \o LeadingDigits(Tail(s))

\* the number written by a sequence of decimal digits
RECURSIVE DecimalValue(_)
DecimalValue(digits) ==
    IF digits = <<>> THEN 0
    ELSE 10 * DecimalValue(SubSeq(digits, 1, Len(digits) - 1))
            + (digits[Len(digits)] - 48)

\* parseInt(string) in radix 10: leading white space is skipped, a sign is
\* read, then the longest run of digits; NaN when there is no digit
\* (the strings of the model have no 0x prefix)
ParseInt(s) ==
    LET t == SkipSpaces(s)
        negative == t # <<>> /\ Head(t) = 45
        unsigned == IF t # <<>> /\ Head(t) \in {43, 45} THEN Tail(t) ELSE t
        digits == LeadingDigits(unsigned)
    IN  IF digits = <<>> THEN NaN
        ELSE [nan |-> FALSE,
              value |-> IF negative THEN 0 - DecimalValue(digits)
                        ELSE DecimalValue(digits)]

\* parseInt(url.searchParams.get(name)): null is read as the string "null"
parseIntParam(param) == IF param.present THEN ParseInt(param.value) ELSE NaN

\* parseInt(url.searchParams.get('limit')) || 50 : NaN and 0 are falsy
DefaultLimit == 50
limitOf(param) ==
    LET parsed == parseIntParam(param)
    IN  IF parsed.nan \/ parsed.value = 0 THEN DefaultLimit ELSE parsed.value

\* Array.prototype.slice(0, end): a negative end counts from the end of the
\* array
SliceTo(seq, end) ==
    LET stop == IF end < 0 THEN (IF Len(seq) + end < 0 THEN 0 ELSE Len(seq) + end)
                ELSE (IF end > Len(seq) THEN Len(seq) ELSE end)
    IN  SubSeq(seq, 1, stop)

\* the value undefined, and a member inherited from Object.prototype (an
\* object or a function: truthy, without a property `chapters`)
Undefined == [undefined |-> TRUE]
Inherited == [inherited |-> TRUE]

\* the property names every object literal inherits from Object.prototype
ObjectPrototypeKeys ==
    {"constructor", "__proto__", "hasOwnProperty", "isPrototypeOf",
     "propertyIsEnumerable", "toLocaleString", "toString", "valueOf",
     "__defineGetter__", "__defineSetter__", "__lookupGetter__", "__lookupSetter__"}

\* translations[translationKey] on the object literal `translations`
translationsGet(translationKey) ==
    IF translationKey \in DOMAIN translations THEN translations[translationKey]
    ELSE IF translationKey \in ObjectPrototypeKeys THEN Inherited
    ELSE Undefined

\* Object.keys(translations), as a set
translationKeys == DOMAIN translations

\* the outcome of a handler body that raised a TypeError
Thrown == [thrown |-> TRUE]

\* value.chapters: undefined on an inherited member, so that reading a
\* property of it throws
HasChapters(value) == "chapters" \in DOMAIN value

\* the Response of a handler: addCorsHeaders on what the try block returned;
\* the catch block answers 500 and does not call addCorsHeaders
Respond(outcome) ==
    IF outcome = Thrown
    THEN [status |-> 500, cors |-> FALSE,
          body |-> [error |-> "Internal Server Error"]]
    ELSE [status |-> outcome.status, cors |-> TRUE, body |-> outcome.body]

Ok(body) == [status |-> 200, body |-> body]

\* the data sets the search loops ran over before the handler returned: the
\* name "quran" for Document.searchText, a translation key for the forEach
\* loops of the translation search; none for a handler without such a loop
Searched(outcome) ==
    IF "searched" \in DOMAIN outcome THEN outcome.searched ELSE {}
NotFound(message) == [status |-> 404, body |-> [error |-> message]]
TranslationNotFound ==
    [status |-> 404,
     body |-> [error |-> "Translation not found", available |-> translationKeys]]

----------------------------------------------------------------------------
(* The bodies of the route handlers of fetch: what the try block returns, or *)
(* Thrown. Display fields copied from the data (names, translator, source)   *)
(* are left out.                                                             *)

\* Verse.getTokenCount
verseGetTokenCount(verse) ==
    Len(SelectSeq(Split(verse.data.text), LAMBDA t : Len(t) > 0))

\* verses.reduce((total, verse) => total + <token count of verse.text>, 0)
RECURSIVE TokenTotal(_)
TokenTotal(verses) ==
    IF verses = <<>> THEN 0
    ELSE Len(SelectSeq(Split(Head(verses).text), LAMBDA t : Len(t) > 0))
            + TokenTotal(Tail(verses))

\* Chapter.getTokenCount
chapterGetTokenCount(chapter) == TokenTotal(chapter.data.verses)

\* Chapter.getVerseCount
chapterGetVerseCount(chapter) == Len(chapter.data.verses)

\* Document.getChapterCount
getChapterCount == Len(quranData.chapters)

\* chapters.reduce((total, chapter) => total + chapter.verses.length, 0)
RECURSIVE VerseTotal(_)
VerseTotal(chapters) ==
    IF chapters = <<>> THEN 0
    ELSE Len(Head(chapters).verses) + VerseTotal(Tail(chapters))

\* the reduce of getVerseCount without the accumulator: the callback returns
\* chapter.verses.length
getVerseCountLast ==
    Len(quranData.chapters[Len(quranData.chapters)].verses)

\* Document.getVerseCount
getVerseCount == VerseTotal(quranData.chapters)

\* the outer reduce of Document.getTokenCount
RECURSIVE ChapterTokenTotal(_)
ChapterTokenTotal(chapters) ==
    IF chapters = <<>> THEN 0
    ELSE TokenTotal(Head(chapters).verses) + ChapterTokenTotal(Tail(chapters))

\* Document.getTokenCount
getTokenCount == ChapterTokenTotal(quranData.chapters)

\* GET /api/translations/{translation_key}
translationInfo(translationKey) ==
    LET translation == translationsGet(translationKey)
    IN  IF translation = Undefined THEN TranslationNotFound
        ELSE IF ~HasChapters(translation) THEN Thrown
        ELSE Ok([key |-> translationKey, chapterCount |-> Len(translation.chapters)])

\* GET /api/translations/{translation_key}/chapters
translationChapters(translationKey) ==
    LET translation == translationsGet(translationKey)
    IN  IF translation = Undefined THEN TranslationNotFound
        ELSE IF ~HasChapters(translation) THEN Thrown
        ELSE Ok([items |->
                    [i \in 1..Len(translation.chapters) |->
                        [number |-> translation.chapters[i].number,
                         verseCount |-> Len(translation.chapters[i].verses)]]])

\* GET /api/translations/{translation_key}/chapters/{id}
translationChapter(translationKey, chapterSegment) ==
    LET chapterNum == ParseInt(chapterSegment).value
        translation == translationsGet(translationKey)
    IN  IF translation = Undefined THEN TranslationNotFound
        ELSE IF ~HasChapters(translation) THEN Thrown
        ELSE LET chapter == Find(SelectSeq(translation.chapters,
                                           LAMBDA ch : ch.number = chapterNum))
             IN  IF chapter = Null THEN NotFound("Chapter not found")
                 ELSE Ok([translation |-> translationKey,
                          number |-> chapter.number,
                          verseCount |-> Len(chapter.verses),
                          verses |-> chapter.verses])

\* GET /api/translations/{translation_key}/verses/{chapterNum}/{verseNum}
translationVerse(translationKey, chapterSegment, verseSegment) ==
    LET chapterNum == ParseInt(chapterSegment).value
        verseNum == ParseInt(verseSegment).value
        translation == translationsGet(translationKey)
    IN  IF translation = Undefined THEN TranslationNotFound
        ELSE IF ~HasChapters(translation) THEN Thrown
        ELSE LET chapter == Find(SelectSeq(translation.chapters,
                                           LAMBDA ch : ch.number = chapterNum))
             IN  IF chapter = Null THEN NotFound("Chapter not found")
                 ELSE LET verse == Find(SelectSeq(chapter.verses, LAMBDA v : v.number = verseNum))
                      IN  IF verse = Null THEN NotFound("Verse not found")
                          ELSE Ok([translation |-> translationKey,
                                   chapterNumber |-> chapterNum,
                                   verseNumber |-> verseNum,
                                   text |-> verse.text])

\* GET /api/chapters/{id}
chapterRoute(chapterSegment) ==
    LET chapter == getChapter(ParseInt(chapterSegment).value)
    IN  IF chapter = Null THEN NotFound("Chapter not found")
        ELSE Ok([number |-> chapter.data.number,
                 verseCount |-> Len(chapter.data.verses),
                 tokenCount |-> chapterGetTokenCount(chapter),
                 verses |->
                    [i \in 1..Len(chapter.data.verses) |->
                        [number |-> chapter.data.verses[i].number,
                         text |-> chapter.data.verses[i].text,
                         tokenCount |->
                            verseGetTokenCount([data |-> chapter.data.verses[i],
                                                chapterNumber |-> chapter.data.number])]]])

\* GET /api/verses/{chapterNum}/{verseNum}
verseRoute(chapterSegment, verseSegment) ==
    LET verse == getVerse(ParseInt(chapterSegment).value, ParseInt(verseSegment).value)
    IN  IF verse = Null THEN NotFound("Verse not found")
        ELSE Ok([chapterNumber |-> verse.chapterNumber,
                 verseNumber |-> verse.data.number,
                 text |-> verse.data.text,
                 location |-> Location(verse.chapterNumber, verse.data.number),
                 tokenCount |-> verseGetTokenCount(verse),
                 tokens |->
                    [i \in 1..Len(getTokens(verse)) |->
                        [number |-> getTokens(verse)[i].tokenNumber,
                         text |-> getTokens(verse)[i].text,
                         location |-> tokenGetLocation(getTokens(verse)[i])]]])

\* the body of the forEach of GET /api/compare for one translation: the
\* verse data found by the two find calls, else null
compareLookup(translation, chapterNum, verseNum) ==
    LET chapter == Find(SelectSeq(translation.chapters,
                                  LAMBDA ch : ch.number = chapterNum))
    IN  IF chapter = Null THEN Null
        ELSE Find(SelectSeq(chapter.verses, LAMBDA v : v.number = verseNum))

\* translatedVerses left empty as soon as one translation lacks the verse
translatedVersesAllOrNone(chapterNum, verseNum) ==
    IF \E key \in translationKeys :
            compareLookup(translations[key], chapterNum, verseNum) = Null
    THEN [key \in {} |-> [text |-> <<>>]]
    ELSE [key \in translationKeys |->
             [text |-> compareLookup(translations[key], chapterNum, verseNum).text]]

\* the object translatedVerses after Object.keys(translations).forEach
translatedVerses(chapterNum, verseNum) ==
    [key \in {k \in translationKeys :
                 compareLookup(translations[k], chapterNum, verseNum) # Null} |->
        [text |-> compareLookup(translations[key], chapterNum, verseNum).text]]

\* GET /api/compare without the test of the Arabic verse
compareRouteUnchecked(chapterSegment, verseSegment) ==
    LET chapterNum == ParseInt(chapterSegment).value
        verseNum == ParseInt(verseSegment).value
        arabicVerse == getVerse(chapterNum, verseNum)
    IN  Ok([chapterNumber |-> chapterNum,
            verseNumber |-> verseNum,
            arabic |-> [text |-> IF arabicVerse = Null THEN <<>>
                                 ELSE arabicVerse.data.text],
            translations |-> translatedVerses(chapterNum, verseNum)])

\* GET /api/compare/{chapterNum}/{verseNum}
compareRoute(chapterSegment, verseSegment) ==
    LET chapterNum == ParseInt(chapterSegment).value
        verseNum == ParseInt(verseSegment).value
        arabicVerse == getVerse(chapterNum, verseNum)
    IN  IF arabicVerse = Null THEN NotFound("Verse not found")
        ELSE IF \E key \in translationKeys : ~HasChapters(translations[key])
        THEN Thrown
        ELSE Ok([chapterNumber |-> chapterNum,
                 verseNumber |-> verseNum,
                 arabic |-> [text |-> arabicVerse.data.text],
                 translations |-> translatedVerses(chapterNum, verseNum)])

\* !query that lets the empty string pass
QueryMissingNullOnly(q) == ~q.present

\* !query : null and the empty string are falsy
QueryMissing(q) == ~q.present \/ q.value = <<>>

\* url.searchParams.get(name) || fallback, for a parameter compared as a whole
ParamOr(param, fallback) ==
    IF ~param.present \/ param.value = "" THEN fallback ELSE param.value

\* const results = search.getResults() of GET /api/search: a TokenSearch
\* built with { normalize } and the one term findToken(query) or
\* findSubstring(query)
searchRouteResults(query, type, norm) ==
    getResults(IF type = "exact" THEN <<[type |-> "exact", text |-> query]>>
               ELSE <<[type |-> "substring", text |-> query]>>,
               [normalize |-> norm, caseSensitive |-> FALSE])

\* GET /api/search
searchRoute(q, typeParam, normalizeParam, limitParam) ==
    LET type == ParamOr(typeParam, "substring")
        norm == normalizeParam.present /\ normalizeParam.value = "true"
        limit == limitOf(limitParam)
    IN  IF QueryMissing(q)
        THEN [status |-> 400, searched |-> {},
              body |-> [error |-> "Query parameter \"q\" is required"]]
        ELSE LET found == searchRouteResults(q.value, type, norm)
             IN  [status |-> 200, searched |-> {"quran"},
                  body |-> [query |-> q.value,
                            type |-> type,
                            normalize |-> norm,
                            resultCount |-> Len(found),
                            results |-> SliceTo(found, limit),
                            hasMore |-> Len(found) > limit]]

\* /[.,;:!?()[\]{}'"]/
Punctuation == {46, 44, 59, 58, 33, 63, 40, 41, 91, 93, 123, 125, 39, 34}

\* word.replace(/[.,;:!?()[\]{}'"]/g, '')
StripPunctuation(word) == SelectSeq(word, LAMBDA c : c \notin Punctuation)

\* the test of one verse in the translation search
translationVerseMatches(text, type, queryLower) ==
    LET verseTextLower == ToLowerCase(text)
    IN  IF type = "exact"
        THEN \E i \in 1..Len(Split(verseTextLower)) :
                StripPunctuation(Split(verseTextLower)[i]) = queryLower
        ELSE Includes(verseTextLower, queryLower)

\* insertion of a record into a sequence sorted by chapter, then verse,
\* after the records that do not compare greater
RECURSIVE InsertSorted(_, _)
InsertSorted(sorted, r) ==
    IF sorted = <<>> THEN <<r>>
    ELSE IF \/ r.chapterNumber < Head(sorted).chapterNumber
            \/ /\ r.chapterNumber = Head(sorted).chapterNumber
               /\ r.verseNumber < Head(sorted).verseNumber
         THEN <<r>> \o sorted
         ELSE <<Head(sorted)>> \o InsertSorted(Tail(sorted), r)

\* searchResults left in the order of the push calls
InPushOrder(seq) == seq

\* searchResults.sort by chapterNumber, then verseNumber (a stable sort)
RECURSIVE SortByChapterVerse(_)
SortByChapterVerse(seq) ==
    IF seq = <<>> THEN <<>>
    ELSE InsertSorted(SortByChapterVerse(SubSeq(seq, 1, Len(seq) - 1)), seq[Len(seq)])

\* url.searchParams.get('lang') || 'en' with another default
DefaultLangMalay == "ms"

\* the default of url.searchParams.get('lang') || 'en'
DefaultLang == "en"

\* const supportedLangs / translationKeyMap
SupportedLangs == {"en", "ms", "zh", "ta"}
TranslationKeyMap ==
    [l \in SupportedLangs |->
        CASE l = "en" -> "en.hilali" [] l = "ms" -> "ms.basmeih"
          [] l = "zh" -> "zh.jian" [] l = "ta" -> "ta.tamil"]

\* the record pushed for a matching verse of a translation
translationResult(p, lang, includeArabic) ==
    LET arabicVerse == getVerse(p.chapter.number, p.verse.number)
    IN  IF includeArabic /\ arabicVerse # Null
        THEN [chapterNumber |-> p.chapter.number,
              verseNumber |-> p.verse.number,
              translation |-> [text |-> p.verse.text, language |-> lang],
              arabic |-> [text |-> arabicVerse.data.text]]
        ELSE [chapterNumber |-> p.chapter.number,
              verseNumber |-> p.verse.number,
              translation |-> [text |-> p.verse.text, language |-> lang]]

\* searchResults of GET /api/search/translation after the two forEach loops
\* and the sort
translationSearchResults(translation, query, type, lang, includeArabic) ==
    LET queryLower == ToLowerCase(query)
        hits == SelectSeq(Traversal(translation.chapters),
                    LAMBDA p : translationVerseMatches(p.verse.text, type, queryLower))
    IN  SortByChapterVerse(
            [i \in 1..Len(hits) |-> translationResult(hits[i], lang, includeArabic)])

\* GET /api/search/translation
searchTranslationRoute(q, langParam, typeParam, limitParam, includeArabicParam) ==
    LET lang == ParamOr(langParam, DefaultLang)
        type == ParamOr(typeParam, "substring")
        limit == limitOf(limitParam)
        includeArabic == ~(includeArabicParam.present
                            /\ includeArabicParam.value = "false")
    IN  IF QueryMissing(q)
        THEN [status |-> 400, searched |-> {},
              body |-> [error |-> "Query parameter \"q\" is required",
                        supportedLanguages |-> SupportedLangs]]
        ELSE IF lang \notin SupportedLangs
        THEN [status |-> 400, searched |-> {},
              body |-> [error |-> "Unsupported language: " \o lang,
                        supportedLanguages |-> SupportedLangs]]
        ELSE LET translation == translationsGet(TranslationKeyMap[lang])
             IN  IF translation = Undefined
                 THEN [status |-> 404, searched |-> {},
                       body |-> [error |-> "Translation not available for language: "
                                              \o lang,
                                 available |-> translationKeys]]
                 ELSE IF ~HasChapters(translation) THEN Thrown
                 ELSE LET found == translationSearchResults(translation, q.value, type,
                                                                    lang, includeArabic)
                      IN  [status |-> 200, searched |-> {TranslationKeyMap[lang]},
                           body |-> [query |-> q.value,
                                     language |-> lang,
                                     searchType |-> type,
                                     includeArabic |-> includeArabic,
                                     resultCount |-> Len(found),
                                     results |-> SliceTo(found, limit),
                                     hasMore |-> Len(found) > limit]]

----------------------------------------------------------------------------
(* Initial values of the parts a specification does not exercise *)

NoCall == [query |-> <<>>, exact |-> FALSE, normalize |-> FALSE,
           caseSensitive |-> FALSE, called |-> FALSE]

NoRequest == [route |-> "none"]
NoResponse == [status |-> 0]

IdleNormalize == normArg = <<>> /\ normRes = <<>>

IdleSearch ==
    /\ searchCall = NoCall
    /\ searchResults = <<>>
    /\ searchTerms = <<>>
    /\ options = [normalize |-> FALSE, caseSensitive |-> FALSE]
    /\ results = <<>>
    /\ tsState = "building"

IdleWorker == request = NoRequest /\ response = NoResponse /\ searched = {}

\* no traversal started
NoWalk == [stage |-> "none"]

IdleDocument == walk = NoWalk

\* no invocation of fetch in progress
IdleIsolate == inflight = <<>>

\* no deployment script running
NoDeploy == [script |-> "none"]

IdleDeploy == deploy = NoDeploy

----------------------------------------------------------------------------
(* SpecNormalize: ArabicTextUtils.normalize applied to a string, and applied *)
(* again to its own result                                                   *)

\* the characters of the arguments: a, A, space, tab, ALEF WITH HAMZA ABOVE,
\* TEH MARBUTA, FATHA, SUPERSCRIPT ALEF
NormAlphabet == {97, 65, 32, 9, 1571, 1577, 1614, 1648}

InitNormalize ==
    /\ normArg \in StringsUpTo(NormAlphabet, MaxTextLen)
    /\ normRes = <<>>
    /\ quranData = SampleCorpus
    /\ translations = SampleTranslations
    /\ IdleSearch
    /\ IdleWorker
    /\ IdleDocument
    /\ IdleDeploy
    /\ IdleIsolate

\* normRes[1] = normalize(normArg)
Normalize ==
    /\ normRes = <<>>
    /\ normRes' = <<normalize(normArg)>>
    /\ UNCHANGED <<quranData, translations, normArg, searchCall,
                   searchResults, searchTerms, options, results, tsState,
                   request, response, searched, walk, inflight,
                   deploy>>

\* normRes[2] = normalize(normalize(normArg))
NormalizeAgain ==
    /\ Len(normRes) = 1
    /\ normRes' = Append(normRes, normalize(normRes[1]))
    /\ UNCHANGED <<quranData, translations, normArg, searchCall,
                   searchResults, searchTerms, options, results, tsState,
                   request, response, searched, walk, inflight,
                   deploy>>

NextNormalize == Normalize \/ NormalizeAgain

SpecNormalize == InitNormalize /\ [][NextNormalize]_vars

\* C1: normalize is idempotent: normalize(normalize(s)) = normalize(s) for
\* every string s
C1_NormalizeIdempotent == Len(normRes) = 2 => normRes[2] = normRes[1]

\* normalize was applied twice to a string that the first application changed
\* by folding, stripping, collapsing and trimming at once
C1_Witness ==
    /\ Len(normRes) = 2
    /\ normArg = <<1614, 32, 1571, 9>>
    /\ normRes[1] = <<Alif>>

\* the combining marks U+064B..U+065F and U+0670
CombiningMarks == (1611..1631) \cup {1648}

\* a string without its combining marks
WithoutMarks(s) == SelectSeq(s, LAMBDA c : c \notin CombiningMarks)

\* C19: two strings that differ only by the presence of combining marks
\* U+064B..U+065F, U+0670 have the same normalize output, and the marks are
\* removed, not replaced. Two strings differ only by marks iff they are equal
\* without their marks, so the property is stated as: normalize(s) is
\* normalize(s without its marks), it holds no mark, and it is no longer than
\* s without its marks
C19_MarksDoNotMatter ==
    normRes # <<>> =>
        /\ normRes[1] = normalize(WithoutMarks(normArg))
        /\ \A i \in 1..Len(normRes[1]) : normRes[1][i] \notin CombiningMarks
        /\ Len(normRes[1]) <= Len(WithoutMarks(normArg))

\* "a", FATHA, SUPERSCRIPT ALEF, "A" was normalized to "aa"
C19_Witness ==
    /\ normArg = <<97, 1614, 1648, 65>>
    /\ normRes # <<>>
    /\ normRes[1] = <<97, 97>>

----------------------------------------------------------------------------
(* SpecSearchText: calls of Document.searchText on a loaded corpus *)

\* the queries of the model: "a", "A", "b", "ab", ALEF WITH HAMZA ABOVE, ALEF,
\* " b", FATHA
Queries ==
    {<<97>>, <<65>>, <<98>>, <<97, 98>>, <<1571>>, <<1575>>, <<32, 98>>, <<1614>>}

InitSearchText ==
    /\ quranData \in Corpora
    /\ translations = SampleTranslations
    /\ IdleNormalize
    /\ IdleSearch
    /\ IdleWorker
    /\ IdleDocument
    /\ IdleDeploy
    /\ IdleIsolate

\* one call Document.searchText(query, {exact, normalize, caseSensitive})
SearchText ==
    \E query \in Queries, exact \in BOOLEAN, norm \in BOOLEAN, cs \in BOOLEAN :
        /\ searchCall' = [query |-> query, exact |-> exact, normalize |-> norm,
                          caseSensitive |-> cs, called |-> TRUE]
        /\ searchResults' = searchText(query, [exact |-> exact, normalize |-> norm,
                                               caseSensitive |-> cs])
        /\ UNCHANGED <<quranData, translations, normArg, normRes, searchTerms,
                       options, results, tsState, request, response, searched,
                       walk, inflight,
                       deploy>>

NextSearchText == SearchText

SpecSearchText == InitSearchText /\ [][NextSearchText]_vars

\* the set of (chapter, verse) pairs of a sequence of result records
Coordinates(records) ==
    {<<records[i].chapterNumber, records[i].verseNumber>> : i \in 1..Len(records)}

\* text as it is compared when case is ignored: normalized if asked, then
\* case-folded
Folded(text, norm) == ToLowerCase(IF norm THEN normalize(text) ELSE text)

\* the verses with a white-space-delimited token equal to the query, both
\* folded
ExactFoldedMatches(query, norm) ==
    {<<p.chapter.number, p.verse.number>> :
        p \in {q \in {Traversal(quranData.chapters)[i] :
                        i \in 1..Len(Traversal(quranData.chapters))} :
                 Contains(Split(Folded(q.verse.text, norm)), Folded(query, norm))}}

\* C2: with caseSensitive = false an exact search returns exactly the verses
\* that have a white-space-delimited token equal to the query after case
\* folding of both sides, so the letter case of the query does not matter
C2_ExactIgnoresCase ==
    (searchCall.called /\ searchCall.exact /\ ~searchCall.caseSensitive)
        => Coordinates(searchResults)
               = ExactFoldedMatches(searchCall.query, searchCall.normalize)

\* C18: with normalize = true the verses returned by an exact search are
\* among the verses returned by the substring search for the same query
C18_ExactWithinSubstring ==
    (searchCall.called /\ searchCall.exact /\ searchCall.normalize)
        => Coordinates(searchResults)
               \subseteq Coordinates(searchText(searchCall.query,
                                         [exact |-> FALSE, normalize |-> TRUE,
                                          caseSensitive |-> searchCall.caseSensitive]))

\* an exact normalized search for ALEF WITH HAMZA ABOVE returned a verse
C18_Witness ==
    /\ searchCall.called /\ searchCall.exact /\ searchCall.normalize
    /\ searchCall.query = <<1571>>
    /\ searchResults # <<>>

\* C28: every verse returned by a substring search with normalize = false
\* is returned by the substring search with normalize = true for the same
\* query
C28_NormalizeKeepsMatches ==
    (searchCall.called /\ ~searchCall.exact /\ ~searchCall.normalize)
        => Coordinates(searchResults)
               \subseteq Coordinates(searchText(searchCall.query,
                                         [exact |-> FALSE, normalize |-> TRUE,
                                          caseSensitive |-> searchCall.caseSensitive]))

\* a substring search without normalization for ALEF WITH HAMZA ABOVE
\* returned a verse
C28_Witness ==
    /\ searchCall.called /\ ~searchCall.exact /\ ~searchCall.normalize
    /\ searchCall.query = <<1571>>
    /\ searchResults # <<>>

----------------------------------------------------------------------------
(* SpecTokenSearch: a TokenSearch is constructed, terms are added with       *)
(* findSubstring and findToken, and getResults is called                     *)

\* the texts of the search terms: "a", "b", ALEF WITH HAMZA ABOVE
TermTexts == {<<97>>, <<98>>, <<1571>>}

InitTokenSearch ==
    /\ quranData \in Corpora
    /\ translations = SampleTranslations
    /\ IdleNormalize
    /\ searchCall = NoCall
    /\ searchResults = <<>>
    /\ searchTerms = <<>>
    /\ options \in [normalize : BOOLEAN, caseSensitive : BOOLEAN]
    /\ results = <<>>
    /\ tsState = "building"
    /\ IdleWorker
    /\ IdleDocument
    /\ IdleDeploy
    /\ IdleIsolate

\* TokenSearch.findSubstring
FindSubstring ==
    \E text \in TermTexts :
        /\ tsState = "building"
        /\ Len(searchTerms) < MaxTerms
        /\ searchTerms' = Append(searchTerms, [type |-> "substring", text |-> text])
        /\ UNCHANGED <<quranData, translations, normArg, normRes, searchCall,
                       searchResults, options, results, tsState, request,
                       response, searched, walk, inflight,
                       deploy>>

\* TokenSearch.findToken
FindToken ==
    \E text \in TermTexts :
        /\ tsState = "building"
        /\ Len(searchTerms) < MaxTerms
        /\ searchTerms' = Append(searchTerms, [type |-> "exact", text |-> text])
        /\ UNCHANGED <<quranData, translations, normArg, normRes, searchCall,
                       searchResults, options, results, tsState, request,
                       response, searched, walk, inflight,
                       deploy>>

\* TokenSearch.getResults
GetResults ==
    /\ tsState = "building"
    /\ results' = getResults(searchTerms, options)
    /\ tsState' = "done"
    /\ UNCHANGED <<quranData, translations, normArg, normRes, searchCall,
                   searchResults, searchTerms, options, request, response,
                   searched, walk, inflight,
                   deploy>>

NextTokenSearch == FindSubstring \/ FindToken \/ GetResults

SpecTokenSearch == InitTokenSearch /\ [][NextTokenSearch]_vars

\* the options Document.searchText gets for a term
TermOptions(term) ==
    [exact |-> term.type = "exact", normalize |-> options.normalize,
     caseSensitive |-> options.caseSensitive]

\* the term whose scan reported the record: the first one that matches its verse
HitTerm(record) ==
    searchTerms[CHOOSE i \in 1..Len(searchTerms) :
        /\ <<record.chapterNumber, record.verseNumber>>
              \in Coordinates(searchText(searchTerms[i].text, TermOptions(searchTerms[i])))
        /\ \A j \in 1..(i - 1) :
              <<record.chapterNumber, record.verseNumber>>
                  \notin Coordinates(searchText(searchTerms[j].text,
                                                TermOptions(searchTerms[j])))]

\* the numbers of the tokens of the record's verse that pass the verse test
\* of searchText for the term: same normalization, same case folding, same
\* query
TokensPassingVerseTest(record, term) ==
    LET tokens == getTokens(getVerse(record.chapterNumber, record.verseNumber))
        opts == TermOptions(term)
        normalizedQuery == IF opts.normalize THEN normalize(term.text) ELSE term.text
    IN  {tokens[i].tokenNumber : i \in
            {k \in 1..Len(tokens) : verseMatches(tokens[k].text, normalizedQuery, opts)}}

\* the token numbers attached to a record
TokenNumbers(record) ==
    {record.matchingTokens[i].number : i \in 1..Len(record.matchingTokens)}

\* C3: the matchingTokens of every record are exactly the tokens of its verse
\* that satisfy the predicate that made the verse match, and a record of an
\* exact search has at least one matching token
C3_MatchingTokensFollowVerseTest ==
    tsState = "done" =>
        \A i \in 1..Len(results) :
            /\ TokenNumbers(results[i])
                   = TokensPassingVerseTest(results[i], HitTerm(results[i]))
            /\ HitTerm(results[i]).type = "exact" => results[i].matchingTokens # <<>>

\* C4: no (chapter, verse) location appears twice in the result of a batch
\* search
C4_NoLocationTwice ==
    tsState = "done" =>
        \A i, j \in 1..Len(results) :
            (results[i].chapterNumber = results[j].chapterNumber
                /\ results[i].verseNumber = results[j].verseNumber) => i = j

\* two terms were searched, both match verse 1:1, and it is reported
C4_Witness ==
    /\ tsState = "done"
    /\ Len(searchTerms) = 2
    /\ <<1, 1>> \in Coordinates(searchText(searchTerms[1].text, TermOptions(searchTerms[1])))
    /\ <<1, 1>> \in Coordinates(searchText(searchTerms[2].text, TermOptions(searchTerms[2])))
    /\ <<1, 1>> \in Coordinates(results)

\* the numbers of the tokens of the record's verse that the filter of
\* getResults keeps for the term
TokensMatchingTerm(record, term) ==
    LET kept == matchingTokens(term, options,
                    getTokens(getVerse(record.chapterNumber, record.verseNumber)))
    IN  {kept[i].tokenNumber : i \in 1..Len(kept)}

\* C5: the record of a verse carries the union of the tokens that match any
\* of the terms of the batch
C5_UnionOfMatchingTokens ==
    tsState = "done" =>
        \A i \in 1..Len(results) :
            TokenNumbers(results[i])
                = UNION {TokensMatchingTerm(results[i], searchTerms[t]) :
                            t \in 1..Len(searchTerms)}

\* record a comes before record b in (chapter, verse) order
Before(a, b) ==
    \/ a.chapterNumber < b.chapterNumber
    \/ a.chapterNumber = b.chapterNumber /\ a.verseNumber < b.verseNumber

\* C6: the records of a primary-text search are in strictly ascending
\* (chapter, verse) order, for one term and for a batch of terms
C6_ResultsAscending ==
    tsState = "done" =>
        \A i \in 1..(Len(results) - 1) : Before(results[i], results[i + 1])

----------------------------------------------------------------------------
(* SpecSameText: the corpus and the translations hold the same verse texts;  *)
(* Document.searchText and the translation search are run with one query     *)

\* the verse texts held by both: "a b", "A, b", "ab", "b"
SharedTexts == {<<97, 32, 98>>, <<65, 44, 32, 98>>, <<97, 98>>, <<98>>}

\* the queries: "a", "A", "b", "ab", "a,"
SharedQueries == {<<97>>, <<65>>, <<98>>, <<97, 98>>, <<97, 44>>}

\* one chapter of 1..MaxCorpusVerses of the shared texts
SharedTrees ==
    UNION {{[chapters |-> BuildChapters(texts, <<n>>, 1)] :
                texts \in [1..n -> SharedTexts]} : n \in 1..MaxCorpusVerses}

InitSameText ==
    /\ quranData \in SharedTrees
    /\ translations = [key \in TranslationKeys |-> quranData]
    /\ IdleNormalize
    /\ IdleSearch
    /\ IdleWorker
    /\ IdleDocument
    /\ IdleDeploy
    /\ IdleIsolate

\* Document.searchText(query, {exact}) and
\* GET /api/search/translation?q=query[&type=exact]&include_arabic=false
SearchBoth ==
    \E query \in SharedQueries, exact \in BOOLEAN :
        LET type == IF exact THEN Param("exact") ELSE Absent
            outcome == searchTranslationRoute(Param(query), Absent, type, Absent,
                                              Param("false"))
        IN  /\ searchCall' = [query |-> query, exact |-> exact, normalize |-> FALSE,
                              caseSensitive |-> FALSE, called |-> TRUE]
            /\ searchResults' = searchText(query, [exact |-> exact, normalize |-> FALSE,
                                                   caseSensitive |-> FALSE])
            /\ request' = [route |-> "searchTranslation", q |-> Param(query),
                           lang |-> Absent, type |-> type, limit |-> Absent,
                           include_arabic |-> Param("false")]
            /\ response' = Respond(outcome)
            /\ searched' = Searched(outcome)
            /\ UNCHANGED <<quranData, translations, normArg, normRes, searchTerms,
                           options, results, tsState, walk, inflight,
                           deploy>>

NextSameText == SearchBoth

SpecSameText == InitSameText /\ [][NextSameText]_vars

\* the verses with a white-space-delimited token equal to the query, case
\* ignored on both sides
TokenEqualityMatches(query) ==
    {<<p.chapter.number, p.verse.number>> :
        p \in {q \in {Traversal(quranData.chapters)[i] :
                        i \in 1..Len(Traversal(quranData.chapters))} :
                 Contains(Split(ToLowerCase(q.verse.text)), ToLowerCase(query))}}

\* C17: on the same verse texts and for the same query, with normalization
\* off and case ignored, the translation search and Document.searchText
\* match the same verses, in substring mode and in exact mode, where a verse
\* matches iff one white-space-delimited token equals the query
C17_SameMatching ==
    searchCall.called =>
        /\ Coordinates(searchResults) = Coordinates(response.body.results)
        /\ searchCall.exact =>
               Coordinates(response.body.results)
                   = TokenEqualityMatches(searchCall.query)

----------------------------------------------------------------------------
(* SpecDocument: a caller walks the corpus with getAllChapters and           *)
(* getAllVerses and looks each verse it reaches up again with getVerse       *)

\* a corpus of one chapter whose verses are " a  b " and the empty string
PaddedCorpus ==
    [chapters |-> BuildChapters(<<<<32, 97, 32, 32, 98, 32>>, <<>>>>, <<2>>, 1)]

InitDocument ==
    /\ quranData \in Corpora \cup {PaddedCorpus}
    /\ translations = SampleTranslations
    /\ IdleNormalize
    /\ IdleSearch
    /\ IdleWorker
    /\ IdleDocument
    /\ IdleDeploy
    /\ IdleIsolate

\* const chapters = Document.getAllChapters()
GetAllChapters ==
    /\ walk = NoWalk
    /\ walk' = [stage |-> "chapters", chapters |-> getAllChapters]
    /\ UNCHANGED <<quranData, translations, normArg, normRes, searchCall,
                   searchResults, searchTerms, options, results, tsState,
                   request, response, searched, inflight,
                   deploy>>

\* const verses = c.getAllVerses(), for one chapter c of the traversal
GetAllVerses ==
    \E i \in 1..Len(quranData.chapters) :
        /\ walk.stage = "chapters"
        /\ walk' = [stage |-> "verses", chapter |-> walk.chapters[i],
                    verses |-> chapterGetAllVerses(walk.chapters[i])]
        /\ UNCHANGED <<quranData, translations, normArg, normRes, searchCall,
                       searchResults, searchTerms, options, results, tsState,
                       request, response, searched, inflight,
                       deploy>>

\* Document.getVerse(c.getNumber(), v.getNumber()), for one verse v reached
LookUpReached ==
    \E j \in 1..MaxCorpusVerses :
        /\ walk.stage = "verses"
        /\ j <= Len(walk.verses)
        /\ walk' = [stage |-> "looked", chapter |-> walk.chapter,
                    reached |-> walk.verses[j],
                    found |-> getVerse(walk.chapter.data.number,
                                       walk.verses[j].data.number)]
        /\ UNCHANGED <<quranData, translations, normArg, normRes, searchCall,
                       searchResults, searchTerms, options, results, tsState,
                       request, response, searched, inflight,
                       deploy>>

\* v.getTokens(), v.getTokenCount(), v.getLocation() and the getLocation()
\* of each token, for one verse v reached
GetTokens ==
    \E j \in 1..MaxCorpusVerses :
        /\ walk.stage = "verses"
        /\ j <= Len(walk.verses)
        /\ walk' = [stage |-> "tokens", verse |-> walk.verses[j],
                    tokens |-> getTokens(walk.verses[j]),
                    tokenCount |-> verseGetTokenCount(walk.verses[j]),
                    location |-> verseGetLocation(walk.verses[j]),
                    tokenLocations |->
                        [i \in 1..Len(getTokens(walk.verses[j])) |->
                            tokenGetLocation(getTokens(walk.verses[j])[i])]]
        /\ UNCHANGED <<quranData, translations, normArg, normRes, searchCall,
                       searchResults, searchTerms, options, results, tsState,
                       request, response, searched, inflight,
                       deploy>>

\* the counts of the document, of each chapter and of each verse
CountAll ==
    /\ walk = NoWalk
    /\ walk' = [stage |-> "counted",
                chapterCount |-> getChapterCount,
                verseCount |-> getVerseCount,
                tokenCount |-> getTokenCount,
                chapters |->
                    [i \in 1..Len(getAllChapters) |->
                        [verseCount |-> chapterGetVerseCount(getAllChapters[i]),
                         tokenCount |-> chapterGetTokenCount(getAllChapters[i]),
                         verses |->
                            [j \in 1..Len(chapterGetAllVerses(getAllChapters[i])) |->
                                [text |-> chapterGetAllVerses(getAllChapters[i])[j].data.text,
                                 tokenCount |-> verseGetTokenCount(
                                    chapterGetAllVerses(getAllChapters[i])[j])]]]]]
    /\ UNCHANGED <<quranData, translations, normArg, normRes, searchCall,
                   searchResults, searchTerms, options, results, tsState,
                   request, response, searched, inflight,
                   deploy>>

NextDocument ==
    GetAllChapters \/ GetAllVerses \/ LookUpReached \/ GetTokens \/ CountAll

SpecDocument == InitDocument /\ [][NextDocument]_vars

\* C11: getVerse(c.number, v.number) of a verse v reached by traversal in
\* chapter c returns a verse with the same chapter number, verse number and
\* text
C11_RoundTrip ==
    walk.stage = "looked" =>
        /\ walk.found # Null
        /\ walk.found.chapterNumber = walk.chapter.data.number
        /\ walk.found.chapterNumber = walk.reached.chapterNumber
        /\ walk.found.data.number = walk.reached.data.number
        /\ walk.found.data.text = walk.reached.data.text

\* the verse of the second chapter of a corpus of two chapters was reached
\* and looked up
C11_Witness ==
    /\ walk.stage = "looked"
    /\ Len(quranData.chapters) = 2
    /\ walk.chapter.data.number = 2
    /\ walk.reached.data.number = 1
    /\ walk.found # Null

\* the sum of the field of the records of a sequence
RECURSIVE SumOfVerseCounts(_)
SumOfVerseCounts(seq) ==
    IF seq = <<>> THEN 0 ELSE Head(seq).verseCount + SumOfVerseCounts(Tail(seq))

RECURSIVE SumOfTokenCounts(_)
SumOfTokenCounts(seq) ==
    IF seq = <<>> THEN 0 ELSE Head(seq).tokenCount + SumOfTokenCounts(Tail(seq))

\* the positions of a text at which a white-space-delimited segment starts
SegmentStarts(text) ==
    {i \in 1..Len(text) : ~IsSpace(text[i]) /\ (i = 1 \/ IsSpace(text[i - 1]))}

\* the segment that starts at position i: up to the next white space
SegmentAt(text, i) ==
    SubSeq(text, i,
           CHOOSE k \in i..Len(text) :
               /\ \A m \in i..k : ~IsSpace(text[m])
               /\ (k = Len(text) \/ IsSpace(text[k + 1])))

\* C23: Document.getVerseCount is the sum of the chapters' getVerseCount,
\* Document.getTokenCount the sum of the chapters' getTokenCount, a chapter's
\* token count the sum of its verses' getTokenCount, and a verse's token
\* count the number of non-empty white-space-delimited segments of its text
C23_StatisticsFollowTraversal ==
    walk.stage = "counted" =>
        /\ walk.chapterCount = Len(walk.chapters)
        /\ walk.verseCount = SumOfVerseCounts(walk.chapters)
        /\ walk.tokenCount = SumOfTokenCounts(walk.chapters)
        /\ \A i \in 1..Len(walk.chapters) :
              /\ walk.chapters[i].verseCount = Len(walk.chapters[i].verses)
              /\ walk.chapters[i].tokenCount
                    = SumOfTokenCounts(walk.chapters[i].verses)
              /\ \A j \in 1..Len(walk.chapters[i].verses) :
                    walk.chapters[i].verses[j].tokenCount
                        = Cardinality(SegmentStarts(walk.chapters[i].verses[j].text))

\* a corpus of two chapters was counted
C23_Witness ==
    /\ walk.stage = "counted"
    /\ walk.chapterCount = 2
    /\ walk.verseCount = 2
    /\ walk.tokenCount >= 3

\* C27: getTokens returns the non-empty white-space-delimited segments of
\* the text in text order, numbered 1..getTokenCount, each with the chapter
\* and verse number of its verse and the location 'chapter:verse:token'; the
\* location of the verse is 'chapter:verse'
C27_TokensAreNumberedSegments ==
    walk.stage = "tokens" =>
        /\ Len(walk.tokens) = walk.tokenCount
        /\ Len(walk.tokens) = Cardinality(SegmentStarts(walk.verse.data.text))
        /\ walk.location = ToString(walk.verse.chapterNumber) \o ":"
                               \o ToString(walk.verse.data.number)
        /\ \A i \in 1..Len(walk.tokens) :
              /\ walk.tokens[i].tokenNumber = i
              /\ walk.tokens[i].chapterNumber = walk.verse.chapterNumber
              /\ walk.tokens[i].verseNumber = walk.verse.data.number
              /\ walk.tokenLocations[i] = walk.location \o ":" \o ToString(i)
              /\ \E start \in SegmentStarts(walk.verse.data.text) :
                    /\ Cardinality({t \in SegmentStarts(walk.verse.data.text) :
                                        t <= start}) = i
                    /\ walk.tokens[i].text = SegmentAt(walk.verse.data.text, start)

\* the tokens of the verse " a  b " were listed
C27_Witness ==
    /\ walk.stage = "tokens"
    /\ walk.verse.data.text = <<32, 97, 32, 32, 98, 32>>
    /\ Len(walk.tokens) = 2
    /\ walk.tokens[2].text = <<98>>

----------------------------------------------------------------------------
(* Spec: the worker answers requests on the loaded data, one at a time *)

\* the translation keys requested: the four loaded keys, an unknown key, and
\* two names every object inherits
PathKeys == TranslationKeys \cup {"fr.hamidullah", "constructor", "__proto__"}

\* the path segments matched by (\d+): "0", "1", "2", "3", "01"
NumberSegments == {<<48>>, <<49>>, <<50>>, <<51>>, <<48, 49>>}

\* the values of q: absent, empty, and the queries
QueryParams == {Absent, Param(<<>>)} \cup {Param(q) : q \in Queries}

\* the values of q of a translation search: absent, empty, "a", "A", "b"
TranslationQueryParams ==
    {Absent, Param(<<>>), Param(<<97>>), Param(<<65>>), Param(<<98>>)}

\* the values of limit: absent, "0", "1", "2", "-1", "x"
LimitParams ==
    {Absent, Param(<<48>>), Param(<<49>>), Param(<<50>>), Param(<<45, 49>>),
     Param(<<120>>)}

TypeParams == {Absent, Param("exact")}
NormalizeParams == {Absent, Param("true")}
LangParams == {Absent, Param("ms"), Param("fr")}
IncludeArabicParams == {Absent, Param("false")}

Init ==
    /\ quranData \in Corpora
    /\ translations \in TranslationStores
    /\ IdleNormalize
    /\ IdleSearch
    /\ IdleWorker
    /\ IdleDocument
    /\ IdleDeploy
    /\ IdleIsolate

GetTranslationInfo ==
    \E key \in PathKeys :
        /\ request = NoRequest
        /\ request' = [route |-> "translationInfo", key |-> key]
        /\ response' = Respond(translationInfo(key))
        /\ searched' = Searched(translationInfo(key))
        /\ UNCHANGED <<quranData, translations, normArg, normRes, searchCall,
                       searchResults, searchTerms, options, results, tsState,
                       walk, inflight,
                       deploy>>

GetTranslationChapters ==
    \E key \in PathKeys :
        /\ request = NoRequest
        /\ request' = [route |-> "translationChapters", key |-> key]
        /\ response' = Respond(translationChapters(key))
        /\ searched' = Searched(translationChapters(key))
        /\ UNCHANGED <<quranData, translations, normArg, normRes, searchCall,
                       searchResults, searchTerms, options, results, tsState,
                       walk, inflight,
                       deploy>>

GetTranslationChapter ==
    \E key \in PathKeys, c \in NumberSegments :
        /\ request = NoRequest
        /\ request' = [route |-> "translationChapter", key |-> key, chapter |-> c]
        /\ response' = Respond(translationChapter(key, c))
        /\ searched' = Searched(translationChapter(key, c))
        /\ UNCHANGED <<quranData, translations, normArg, normRes, searchCall,
                       searchResults, searchTerms, options, results, tsState,
                       walk, inflight,
                       deploy>>

GetTranslationVerse ==
    \E key \in PathKeys, c \in NumberSegments, v \in NumberSegments :
        /\ request = NoRequest
        /\ request' = [route |-> "translationVerse", key |-> key, chapter |-> c,
                       verse |-> v]
        /\ response' = Respond(translationVerse(key, c, v))
        /\ searched' = Searched(translationVerse(key, c, v))
        /\ UNCHANGED <<quranData, translations, normArg, normRes, searchCall,
                       searchResults, searchTerms, options, results, tsState,
                       walk, inflight,
                       deploy>>

GetChapter ==
    \E c \in NumberSegments :
        /\ request = NoRequest
        /\ request' = [route |-> "chapter", chapter |-> c]
        /\ response' = Respond(chapterRoute(c))
        /\ searched' = Searched(chapterRoute(c))
        /\ UNCHANGED <<quranData, translations, normArg, normRes, searchCall,
                       searchResults, searchTerms, options, results, tsState,
                       walk, inflight,
                       deploy>>

GetVerse ==
    \E c \in NumberSegments, v \in NumberSegments :
        /\ request = NoRequest
        /\ request' = [route |-> "verse", chapter |-> c, verse |-> v]
        /\ response' = Respond(verseRoute(c, v))
        /\ searched' = Searched(verseRoute(c, v))
        /\ UNCHANGED <<quranData, translations, normArg, normRes, searchCall,
                       searchResults, searchTerms, options, results, tsState,
                       walk, inflight,
                       deploy>>

Search ==
    \E q \in QueryParams, type \in TypeParams, norm \in NormalizeParams,
       limit \in LimitParams :
        /\ request = NoRequest
        /\ request' = [route |-> "search", q |-> q, type |-> type,
                       normalize |-> norm, limit |-> limit]
        /\ response' = Respond(searchRoute(q, type, norm, limit))
        /\ searched' = Searched(searchRoute(q, type, norm, limit))
        /\ UNCHANGED <<quranData, translations, normArg, normRes, searchCall,
                       searchResults, searchTerms, options, results, tsState,
                       walk, inflight,
                       deploy>>

SearchTranslation ==
    \E q \in TranslationQueryParams, lang \in LangParams, type \in TypeParams,
       limit \in LimitParams, arabic \in IncludeArabicParams :
        /\ request = NoRequest
        /\ request' = [route |-> "searchTranslation", q |-> q, lang |-> lang,
                       type |-> type, limit |-> limit, include_arabic |-> arabic]
        /\ response' = Respond(searchTranslationRoute(q, lang, type, limit, arabic))
        /\ searched' = Searched(searchTranslationRoute(q, lang, type, limit, arabic))
        /\ UNCHANGED <<quranData, translations, normArg, normRes, searchCall,
                       searchResults, searchTerms, options, results, tsState,
                       walk, inflight,
                       deploy>>

Compare ==
    \E c \in NumberSegments, v \in NumberSegments :
        /\ request = NoRequest
        /\ request' = [route |-> "compare", chapter |-> c, verse |-> v]
        /\ response' = Respond(compareRoute(c, v))
        /\ searched' = Searched(compareRoute(c, v))
        /\ UNCHANGED <<quranData, translations, normArg, normRes, searchCall,
                       searchResults, searchTerms, options, results, tsState,
                       walk, inflight,
                       deploy>>

\* a request with the method OPTIONS, on any path: the preflight answer
\* new Response(null, { headers: corsHeaders })
Preflight ==
    /\ request = NoRequest
    /\ request' = [route |-> "options"]
    /\ response' = [status |-> 200, cors |-> TRUE, body |-> Null]
    /\ searched' = {}
    /\ UNCHANGED <<quranData, translations, normArg, normRes, searchCall,
                   searchResults, searchTerms, options, results, tsState,
                   walk, inflight,
                   deploy>>

\* a path that no route matches: the 404 at the end of the try block
UnknownPath ==
    /\ request = NoRequest
    /\ request' = [route |-> "unknown"]
    /\ response' = Respond(NotFound("Not Found"))
    /\ searched' = {}
    /\ UNCHANGED <<quranData, translations, normArg, normRes, searchCall,
                   searchResults, searchTerms, options, results, tsState,
                   walk, inflight,
                   deploy>>

\* the Response is handed to the runtime and the invocation of fetch ends:
\* nothing of the request stays in the worker
Deliver ==
    /\ request # NoRequest
    /\ request' = NoRequest
    /\ response' = NoResponse
    /\ searched' = {}
    /\ UNCHANGED <<quranData, translations, normArg, normRes, searchCall,
                   searchResults, searchTerms, options, results, tsState,
                   walk, inflight,
                   deploy>>

Next ==
    \/ GetTranslationInfo
    \/ GetTranslationChapters
    \/ GetTranslationChapter
    \/ GetTranslationVerse
    \/ GetChapter
    \/ GetVerse
    \/ Search
    \/ SearchTranslation
    \/ Compare
    \/ Preflight
    \/ UnknownPath
    \/ Deliver

Spec == Init /\ [][Next]_vars

\* a search request was answered with a result list
SearchAnswered ==
    request.route \in {"search", "searchTranslation"} /\ response.status = 200

\* the elements of a sequence
Range(seq) == {seq[i] : i \in 1..Len(seq)}

\* the number of verses a full scan finds for the answered search request:
\* the verses of the corpus, or of the translation of the requested
\* language, that pass the verse test
MatchingVerseCount ==
    IF request.route = "search"
    THEN Cardinality(
            {p \in Range(Traversal(quranData.chapters)) :
                verseMatches(p.verse.text,
                    IF response.body.normalize THEN normalize(request.q.value)
                    ELSE request.q.value,
                    [exact |-> response.body.type = "exact",
                     normalize |-> response.body.normalize,
                     caseSensitive |-> FALSE])})
    ELSE Cardinality(
            {p \in Range(Traversal(
                        translations[TranslationKeyMap[response.body.language]].chapters)) :
                translationVerseMatches(p.verse.text, response.body.searchType,
                                        ToLowerCase(request.q.value))})

\* C7: on both search endpoints, for every limit, resultCount is the number
\* of matching verses of a full scan and hasMore is true iff some matching
\* verse is not in the returned results
C7_CountAndHasMore ==
    SearchAnswered =>
        /\ response.body.resultCount = MatchingVerseCount
        /\ response.body.hasMore <=> Len(response.body.results) < MatchingVerseCount

\* the full ordered match list of the answered search request
FullMatchList ==
    IF request.route = "search"
    THEN searchRouteResults(request.q.value, response.body.type, response.body.normalize)
    ELSE translationSearchResults(
            translations[TranslationKeyMap[response.body.language]],
            request.q.value, response.body.searchType, response.body.language,
            response.body.includeArabic)

\* C8: limit is the maximum number of results: an integer limit (0 and
\* negative values included) is never exceeded, an absent or non-numeric limit
\* allows at most 50 records, and the records returned are the first ones of
\* the full ordered match list
C8_LimitIsMaximum ==
    SearchAnswered =>
        LET parsed == parseIntParam(request.limit)
            count == Len(response.body.results)
        IN  /\ ~parsed.nan => count <= parsed.value
            /\ parsed.nan => count <= DefaultLimit
            /\ response.body.results = SubSeq(FullMatchList, 1, count)

TranslationRoutes ==
    {"translationInfo", "translationChapters", "translationChapter", "translationVerse"}

\* C9: on the translation info, chapters list, chapter and verse endpoints a
\* key that is not a loaded translation key is answered 404 with the list of
\* the available keys, for every key string
C9_UnknownKeyNotFound ==
    (request.route \in TranslationRoutes /\ request.key \notin TranslationKeys)
        => /\ response.status = 404
           /\ response.body = [error |-> "Translation not found",
                               available |-> TranslationKeys]

\* the chapter numbers and the (chapter, verse) coordinates of the corpus
ChapterNumbers == {quranData.chapters[i].number : i \in 1..Len(quranData.chapters)}
CorpusCoordinates ==
    {<<p.chapter.number, p.verse.number>> : p \in Range(Traversal(quranData.chapters))}

\* C10: for numbers that are no coordinate of the corpus getChapter and
\* getVerse return null and the chapter and verse endpoints answer 404
\* 'Chapter not found' / 'Verse not found'; no such request yields a 500
C10_LookupFailsSoft ==
    /\ (request.route = "chapter"
            /\ ParseInt(request.chapter).value \notin ChapterNumbers)
        => /\ getChapter(ParseInt(request.chapter).value) = Null
           /\ response.status = 404
           /\ response.body = [error |-> "Chapter not found"]
    /\ (request.route = "verse"
            /\ <<ParseInt(request.chapter).value, ParseInt(request.verse).value>>
                  \notin CorpusCoordinates)
        => /\ getVerse(ParseInt(request.chapter).value,
                       ParseInt(request.verse).value) = Null
           /\ response.status = 404
           /\ response.body = [error |-> "Verse not found"]
    /\ request.route \in {"chapter", "verse"} => response.status # 500

\* a verse beyond the last verse of an existing chapter was requested and
\* answered 404
C10_Witness ==
    /\ request.route = "verse"
    /\ ParseInt(request.chapter).value \in ChapterNumbers
    /\ ParseInt(request.verse).value = 3
    /\ response.status = 404
    /\ response.body = [error |-> "Verse not found"]

\* the coordinates asked by a request with a chapter and a verse segment
RequestedCoordinates ==
    <<ParseInt(request.chapter).value, ParseInt(request.verse).value>>

\* the texts a translation tree holds at a coordinate
TextsAt(tree, coordinates) ==
    {p.verse.text : p \in {q \in Range(Traversal(tree.chapters)) :
                              <<q.chapter.number, q.verse.number>> = coordinates}}

\* the loaded translations that hold a verse at the coordinate
TranslationsWithVerse(coordinates) ==
    {key \in TranslationKeys : TextsAt(translations[key], coordinates) # {}}

\* C12: when the primary verse exists, the translations map of the compare
\* response has an entry for exactly the loaded translations that hold a
\* verse at the coordinate, each with its own text; a translation lacking the
\* chapter or the verse is left out and the call succeeds
C12_CompareComplete ==
    (request.route = "compare" /\ RequestedCoordinates \in CorpusCoordinates)
        => /\ response.status = 200
           /\ DOMAIN response.body.translations
                  = TranslationsWithVerse(RequestedCoordinates)
           /\ \A key \in DOMAIN response.body.translations :
                  TextsAt(translations[key], RequestedCoordinates)
                      = {response.body.translations[key].text}

\* verse 1:2 was compared while the English and the Chinese translation hold
\* it and the Malay and the Tamil one do not
C12_Witness ==
    /\ request.route = "compare"
    /\ RequestedCoordinates = <<1, 2>>
    /\ response.status = 200
    /\ DOMAIN response.body.translations = {"en.hilali", "zh.jian"}
    /\ TranslationsWithVerse(<<1, 2>>) # TranslationKeys

\* C13: when the primary corpus has no verse at the coordinate, compare
\* answers 404 'Verse not found' whatever the translations hold there, and
\* returns no comparison
C13_CompareNeedsPrimary ==
    (request.route = "compare" /\ RequestedCoordinates \notin CorpusCoordinates)
        => /\ response.status = 404
           /\ response.body = [error |-> "Verse not found"]

\* a coordinate that the corpus lacks and every translation holds was
\* compared
C13_Witness ==
    /\ request.route = "compare"
    /\ RequestedCoordinates \notin CorpusCoordinates
    /\ TranslationsWithVerse(RequestedCoordinates) = TranslationKeys
    /\ response.status = 404

SearchRoutes == {"search", "searchTranslation"}

\* C14: a search request without q, or with an empty q, is answered 400 on
\* /api/search and on /api/search/translation with the message about q
\* whatever lang is, and no corpus or translation has been scanned
C14_MissingQueryRejected ==
    (request.route \in SearchRoutes
        /\ (~request.q.present \/ request.q.value = <<>>))
        => /\ response.status = 400
           /\ response.body.error = "Query parameter \"q\" is required"
           /\ searched = {}

\* a translation search with an empty q and an unsupported lang was rejected
C14_Witness ==
    /\ request.route = "searchTranslation"
    /\ request.q = Param(<<>>)
    /\ request.lang = Param("fr")
    /\ response.status = 400

\* C15: a translation search with a non-empty q and a lang outside en, ms,
\* zh, ta is answered 400 with the list of the supported languages and scans
\* no translation; without lang the search runs over the English translation
C15_UnsupportedLangRejected ==
    (request.route = "searchTranslation"
        /\ request.q.present /\ request.q.value # <<>>)
        => /\ (request.lang.present
                  /\ request.lang.value \notin {"en", "ms", "zh", "ta"})
                => /\ response.status = 400
                   /\ response.body.supportedLanguages = {"en", "ms", "zh", "ta"}
                   /\ searched = {}
           /\ ~request.lang.present
                => /\ response.status = 200
                   /\ response.body.language = "en"
                   /\ searched = {"en.hilali"}
                   /\ response.body.resultCount =
                          Len(translationSearchResults(translations["en.hilali"],
                                  request.q.value, response.body.searchType, "en",
                                  response.body.includeArabic))

\* a translation search for "a" in French was rejected
C15_Witness ==
    /\ request.route = "searchTranslation"
    /\ request.q = Param(<<97>>)
    /\ request.lang = Param("fr")
    /\ response.status = 400
    /\ searched = {}

\* a full scan for the search request finds no verse
NoVerseMatches ==
    IF request.route = "search"
    THEN searchRouteResults(request.q.value, ParamOr(request.type, "substring"),
                            request.normalize = Param("true")) = <<>>
    ELSE translationSearchResults(
            translations[TranslationKeyMap[ParamOr(request.lang, "en")]],
            request.q.value, ParamOr(request.type, "substring"),
            ParamOr(request.lang, "en"), TRUE) = <<>>

\* C16: a search that matches no verse is answered 200 with resultCount 0,
\* an empty results list, hasMore false and no error field, while every 400
\* and 404 response carries an error field
C16_NoMatchIsSuccess ==
    /\ (request.route \in SearchRoutes
            /\ request.q.present /\ request.q.value # <<>>
            /\ (request.route = "searchTranslation"
                    => ParamOr(request.lang, "en") \in SupportedLangs)
            /\ NoVerseMatches)
        => /\ response.status = 200
           /\ response.body.resultCount = 0
           /\ response.body.results = <<>>
           /\ response.body.hasMore = FALSE
           /\ "error" \notin DOMAIN response.body
    /\ response.status \in {400, 404} => "error" \in DOMAIN response.body

----------------------------------------------------------------------------
(* SpecUnordered: the worker over a store with translations whose chapters *)
(* are stored out of order                                                  *)

InitUnordered ==
    /\ quranData = SampleCorpus
    /\ translations \in UnorderedStores
    /\ IdleNormalize
    /\ IdleSearch
    /\ IdleWorker
    /\ IdleDocument
    /\ IdleDeploy
    /\ IdleIsolate

SpecUnordered == InitUnordered /\ [][Next]_vars

\* the (chapter, verse) pairs of the verses of a translation that match the
\* query of a translation search
TranslationMatches(translation, type, query) ==
    {[chapterNumber |-> translation.chapters[c].number,
      verseNumber |-> translation.chapters[c].verses[v].number] :
        <<c, v>> \in {cv \in (1..Len(translation.chapters)) \X (1..MaxCorpusVerses + 1) :
                         /\ cv[2] <= Len(translation.chapters[cv[1]].verses)
                         /\ translationVerseMatches(
                                translation.chapters[cv[1]].verses[cv[2]].text,
                                type, ToLowerCase(query))}}

\* the (chapter, verse) pairs of the records of a response
RecordPairs(records) ==
    {[chapterNumber |-> records[i].chapterNumber,
      verseNumber |-> records[i].verseNumber] : i \in 1..Len(records)}

\* C26: the records of a translation search are in ascending chapter, then
\* verse order, and the records cut off by limit are the last of that order:
\* no matching verse left out comes before a returned one
C26_TranslationResultsAscendingPrefix ==
    (request.route = "searchTranslation" /\ response.status = 200)
        => LET records == response.body.results
               matches == TranslationMatches(
                              translations[TranslationKeyMap[response.body.language]],
                              response.body.searchType, response.body.query)
           IN  /\ \A i \in 1..(Len(records) - 1) : ~Before(records[i + 1], records[i])
               /\ RecordPairs(records) \subseteq matches
               /\ \A m \in matches \ RecordPairs(records) :
                      \A i \in 1..Len(records) : ~Before(m, records[i])

\* a search for "b" in the tree stored out of order answered with the first
\* two of its three matching verses
C26_Witness ==
    /\ request.route = "searchTranslation" /\ response.status = 200
    /\ translations[TranslationKeyMap[response.body.language]] = UnorderedTree
    /\ response.body.resultCount = 3
    /\ Len(response.body.results) = 2
    /\ response.body.results[1].chapterNumber = 1
    /\ response.body.results[2].verseNumber = 2

\* C25: the query of an answered search is not empty at the point where it
\* is compared with the verse text, after normalization when normalize=true,
\* so that no accepted query matches every verse vacuously
C25_NoEmptyComparison ==
    (request.route = "search" /\ response.status = 200)
        => (IF response.body.normalize THEN normalize(request.q.value)
            ELSE request.q.value) # <<>>

----------------------------------------------------------------------------
(* SpecLoad: the worker was bundled with a translation file that parses as  *)
(* JSON and has no chapters list, and answers requests                      *)

\* the content of a translation file without the property `chapters`
TranslationWithoutChapters == [name |-> "Translation"]

\* the stores in which at least one translation has no chapters list
MalformedStores ==
    {store \in [TranslationKeys ->
                    {SampleTranslations["en.hilali"], TranslationWithoutChapters}] :
        \E key \in TranslationKeys : store[key] = TranslationWithoutChapters}

InitLoad ==
    /\ quranData = SampleCorpus
    /\ translations \in MalformedStores
    /\ IdleNormalize
    /\ IdleSearch
    /\ IdleWorker
    /\ IdleDocument
    /\ IdleDeploy
    /\ IdleIsolate

SpecLoad == InitLoad /\ [][Next]_vars

\* C21: when a translation is malformed at process start (it has no
\* chapters list), the service never answers a request successfully
C21_LoadFailureIsFatal ==
    (\E key \in TranslationKeys : ~HasChapters(translations[key]))
        => response.status # 200

\* C22: every response the worker returns, for every method, path and
\* outcome, carries the CORS headers
C22_EveryResponseHasCors ==
    request # NoRequest => response.cors

----------------------------------------------------------------------------
(* SpecLimit: /api/search on a corpus with more verses than the documented  *)
(* maximum of the limit parameter                                           *)

\* "limit: Maximum results to return (default: 50, max: 100)"
MaxLimit == 100

\* one chapter of LargeCorpusVerses verses "a b"
LargeCorpus ==
    [chapters |-> BuildChapters([i \in 1..LargeCorpusVerses |-> <<97, 32, 98>>],
                                <<LargeCorpusVerses>>, 1)]

\* the values of limit: absent, "50", "100", "101", "1000", "-1"
LargeLimitParams ==
    {Absent, Param(<<53, 48>>), Param(<<49, 48, 48>>), Param(<<49, 48, 49>>),
     Param(<<49, 48, 48, 48>>), Param(<<45, 49>>)}

InitLimit ==
    /\ quranData = LargeCorpus
    /\ translations = SampleTranslations
    /\ IdleNormalize
    /\ IdleSearch
    /\ IdleWorker
    /\ IdleDocument
    /\ IdleDeploy
    /\ IdleIsolate

\* GET /api/search with a limit around and above the documented maximum
SearchMany ==
    \E q \in QueryParams, type \in TypeParams, norm \in NormalizeParams,
       limit \in LargeLimitParams :
        /\ request = NoRequest
        /\ request' = [route |-> "search", q |-> q, type |-> type,
                       normalize |-> norm, limit |-> limit]
        /\ response' = Respond(searchRoute(q, type, norm, limit))
        /\ searched' = Searched(searchRoute(q, type, norm, limit))
        /\ UNCHANGED <<quranData, translations, normArg, normRes, searchCall,
                       searchResults, searchTerms, options, results, tsState,
                       walk, inflight,
                       deploy>>

NextLimit == SearchMany \/ Deliver

SpecLimit == InitLimit /\ [][NextLimit]_vars

\* C24: /api/search never returns more than 100 records in results,
\* whatever the limit of the request
C24_AtMostHundredRecords ==
    (request.route = "search" /\ response.status = 200)
        => Len(response.body.results) <= MaxLimit

----------------------------------------------------------------------------
(* SpecIsolate: several invocations of fetch are in progress in one isolate *)
(* on the data loaded once. The handler of /api/search is cut into its      *)
(* statements (new TokenSearch, findToken / findSubstring, getResults), so  *)
(* that invocations interleave at every statement; the other handlers are   *)
(* one step each.                                                            *)

\* the requests received: /api/search?q=a, /api/search?q=b&type=exact,
\* /api/search?q=ab, /api/verses/1/2, /api/compare/1/1,
\* /api/search/translation?q=a
IsolateRequests ==
    {[route |-> "search", q |-> Param(<<97>>), type |-> Absent,
      normalize |-> Absent, limit |-> Absent],
     [route |-> "search", q |-> Param(<<98>>), type |-> Param("exact"),
      normalize |-> Absent, limit |-> Absent],
     [route |-> "search", q |-> Param(<<97, 98>>), type |-> Absent,
      normalize |-> Absent, limit |-> Param(<<49>>)],
     [route |-> "verse", chapter |-> <<49>>, verse |-> <<50>>],
     [route |-> "compare", chapter |-> <<49>>, verse |-> <<49>>],
     [route |-> "searchTranslation", q |-> Param(<<97>>), lang |-> Absent,
      type |-> Absent, limit |-> Absent, include_arabic |-> Absent]}

\* new TokenSearch(options)
newTokenSearch(opts) == [searchTerms |-> <<>>, options |-> opts]

\* an invocation slot with no request
NoInvocation ==
    [stage |-> "idle", request |-> NoRequest, response |-> NoResponse,
     search |-> newTokenSearch([normalize |-> FALSE, caseSensitive |-> FALSE])]

\* one TokenSearch for the whole isolate: every invocation reads the one of
\* the first invocation
searchOfFirst(invocations, s) == invocations[1].search

\* the object `search` of an invocation: const search, local to the call
searchOf(invocations, s) == invocations[s].search

\* what a handler without statements of its own between returns
handlerOutcome(req) ==
    CASE req.route = "search" ->
            searchRoute(req.q, req.type, req.normalize, req.limit)
      [] req.route = "verse" -> verseRoute(req.chapter, req.verse)
      [] req.route = "compare" -> compareRoute(req.chapter, req.verse)
      [] req.route = "searchTranslation" ->
            searchTranslationRoute(req.q, req.lang, req.type, req.limit,
                                   req.include_arabic)

InitIsolate ==
    /\ quranData = SampleCorpus
    /\ translations = SampleTranslations
    /\ inflight = [s \in 1..MaxInFlight |-> NoInvocation]
    /\ IdleNormalize
    /\ IdleSearch
    /\ IdleWorker
    /\ IdleDocument
    /\ IdleDeploy

\* the runtime invokes fetch(request, env, ctx)
Receive ==
    \E s \in 1..MaxInFlight, req \in IsolateRequests :
        /\ inflight[s].stage = "idle"
        /\ inflight' = [inflight EXCEPT ![s] = [NoInvocation EXCEPT
                                !.stage = "received", !.request = req]]
        /\ UNCHANGED <<quranData, translations, normArg, normRes, searchCall,
                       searchResults, searchTerms, options, results, tsState,
                       request, response, searched, walk,
                       deploy>>

\* a handler other than the search of a given q runs from its first to its
\* last statement
Handle ==
    \E s \in 1..MaxInFlight :
        /\ inflight[s].stage = "received"
        /\ IF inflight[s].request.route = "search"
           THEN QueryMissing(inflight[s].request.q) ELSE TRUE
        /\ inflight' = [inflight EXCEPT
                ![s].stage = "answered",
                ![s].response = Respond(handlerOutcome(inflight[s].request))]
        /\ UNCHANGED <<quranData, translations, normArg, normRes, searchCall,
                       searchResults, searchTerms, options, results, tsState,
                       request, response, searched, walk,
                       deploy>>

\* const search = new TokenSearch({ normalize })
NewTokenSearch ==
    \E s \in 1..MaxInFlight :
        /\ inflight[s].stage = "received"
        /\ inflight[s].request.route = "search"
        /\ ~QueryMissing(inflight[s].request.q)
        /\ inflight' = [inflight EXCEPT
                ![s].stage = "constructed",
                ![s].search = newTokenSearch(
                    [normalize |-> inflight[s].request.normalize = Param("true"),
                     caseSensitive |-> FALSE])]
        /\ UNCHANGED <<quranData, translations, normArg, normRes, searchCall,
                       searchResults, searchTerms, options, results, tsState,
                       request, response, searched, walk,
                       deploy>>

\* search.findToken(query) or search.findSubstring(query)
AddTerm ==
    \E s \in 1..MaxInFlight :
        /\ inflight[s].stage = "constructed"
        /\ inflight' = [inflight EXCEPT
                ![s].stage = "termed",
                ![s].search = [searchOf(inflight, s) EXCEPT !.searchTerms =
                    Append(@, [type |-> IF ParamOr(inflight[s].request.type,
                                                   "substring") = "exact"
                                        THEN "exact" ELSE "substring",
                               text |-> inflight[s].request.q.value])]]
        /\ UNCHANGED <<quranData, translations, normArg, normRes, searchCall,
                       searchResults, searchTerms, options, results, tsState,
                       request, response, searched, walk,
                       deploy>>

\* const results = search.getResults() and the return of the Response
RunSearch ==
    \E s \in 1..MaxInFlight :
        /\ inflight[s].stage = "termed"
        /\ LET req == inflight[s].request
               found == getResults(searchOf(inflight, s).searchTerms,
                                   searchOf(inflight, s).options)
           IN  inflight' = [inflight EXCEPT
                   ![s].stage = "answered",
                   ![s].response = Respond(Ok(
                       [query |-> req.q.value,
                        type |-> ParamOr(req.type, "substring"),
                        normalize |-> req.normalize = Param("true"),
                        resultCount |-> Len(found),
                        results |-> SliceTo(found, limitOf(req.limit)),
                        hasMore |-> Len(found) > limitOf(req.limit)]))]
        /\ UNCHANGED <<quranData, translations, normArg, normRes, searchCall,
                       searchResults, searchTerms, options, results, tsState,
                       request, response, searched, walk,
                       deploy>>

\* the Response is handed to the runtime and the invocation ends
Return ==
    \E s \in 1..MaxInFlight :
        /\ inflight[s].stage = "answered"
        /\ inflight' = [inflight EXCEPT ![s] = NoInvocation]
        /\ UNCHANGED <<quranData, translations, normArg, normRes, searchCall,
                       searchResults, searchTerms, options, results, tsState,
                       request, response, searched, walk,
                       deploy>>

NextIsolate ==
    \/ Receive
    \/ Handle
    \/ NewTokenSearch
    \/ AddTerm
    \/ RunSearch
    \/ Return

SpecIsolate == InitIsolate /\ [][NextIsolate]_vars

\* the response of a request handled alone on the data
ResponseAlone(req) == Respond(handlerOutcome(req))

\* C20: no step of a handler changes the loaded corpus or the translations,
\* and under every interleaving of the invocations in progress each response
\* is the one the same request gets when it is handled alone on the loaded
\* data
C20_HandlersShareNothing ==
    /\ [](\A s \in 1..MaxInFlight :
            inflight[s].stage = "answered"
                => inflight[s].response = ResponseAlone(inflight[s].request))
    /\ [][quranData' = quranData /\ translations' = translations]_vars

\* a search was answered while another search, for another query, had
\* added its term and not yet run
C20_Witness ==
    /\ inflight[1].stage = "termed"
    /\ inflight[1].request.q = Param(<<97>>)
    /\ inflight[2].stage = "answered"
    /\ inflight[2].request.route = "search"
    /\ inflight[2].request.q = Param(<<98>>)
    /\ inflight[2].response.body.resultCount = 1

----------------------------------------------------------------------------
(* SpecDeploy: one run of a deployment script over wrangler.toml and         *)
(* public/index.html: deploy.sh in its two variants, or the smart            *)
(* deployment script. Each action is one stretch of the script; a command    *)
(* started by the script returns, with success or with failure.              *)

\* MAX_RETRIES=3
MAX_RETRIES == 3

\* "deploy": deploy.sh lines 1-195, which runs wrangler deploy as a plain
\* command; "deployCaptured": deploy.sh lines 197-466, which captures its
\* output; "smart": the smart deployment script
Scripts == {"deploy", "deployCaptured", "smart"}

\* set -e is in force in both variants of deploy.sh and not in the smart
\* script: a command that fails outside a condition ends the script there
ExitsOnError(script) == script \in {"deploy", "deployCaptured"}

\* a file that does not exist, and a file by its content
NoFile == [exists |-> FALSE]
File(content) == [exists |-> TRUE, content |-> content]

\* the name in wrangler.toml as shipped
ShippedName == "al-quran-api"

\* the name in wrangler.toml before the run: as shipped, or edited by hand
ConfigNames == {ShippedName, "my-api"}

\* a URL by the name it is built from and whether it carries a mark such as
\* " (deployment failed)"
Url(name, failed) == [name |-> name, failed |-> failed]

\* the value of a shell variable never assigned
EmptyUrl == Url("", FALSE)

\* the API URL in public/index.html as shipped
ShippedPage == Url("quran-api", FALSE)

\* the answers to a prompt for a name: the empty line, or a name
ApiNameAnswers == {"", "masjid-api"}
PagesNameAnswers == {"", "masjid-pages"}

\* the name used when the first prompt is answered with the empty line
DefaultApiName(script) ==
    IF script = "smart" THEN "al-quran-api-time" ELSE "quran-api-time"

\* the outcomes of a deployment command: success, a failure reporting that
\* the name is taken, any other failure
DeployOutcomes == {"ok", "taken", "error"}

\* sed "s/name = \"old\"/name = \"new\"/" on the content of wrangler.toml
SedName(content, old, new) == IF content = old THEN new ELSE content

\* the replacement of the shipped API URL in the content of index.html
ReplaceUrl(content, url) == IF content = ShippedPage THEN url ELSE content

\* the start of a script in a directory whose wrangler.toml holds configName
DeployStart(script, configName) ==
    [script |-> script, pc |-> "prerequisites", exit |-> -1,
     configName |-> configName,
     wranglerToml |-> File(configName), wranglerBackup |-> NoFile,
     indexHtml |-> File(ShippedPage), indexBackup |-> NoFile,
     apiName |-> "", pagesName |-> "",
     workerUrl |-> EmptyUrl, pagesUrl |-> EmptyUrl,
     retryCount |-> 0, pagesRetryCount |-> 0,
     deployOutcomes |-> <<>>, pagesOutcomes |-> <<>>,
     modified |-> FALSE]

InitDeploy ==
    /\ quranData = SampleCorpus
    /\ translations = SampleTranslations
    /\ IdleNormalize
    /\ IdleSearch
    /\ IdleWorker
    /\ IdleDocument
    /\ IdleIsolate
    /\ deploy \in {DeployStart(script, configName) :
                      script \in Scripts, configName \in ConfigNames}

\* the script ends with the given status at the command it is at
ExitWith(d, status) == [d EXCEPT !.pc = "exited", !.exit = status]

\* what a run of a deployment script leaves alone
WorkerUntouched ==
    UNCHANGED <<quranData, translations, normArg, normRes, searchCall,
                searchResults, searchTerms, options, results, tsState,
                request, response, searched, walk, inflight>>

\* command -v node, command -v npm: exit 1 when one is missing
CheckPrerequisites ==
    \E present \in BOOLEAN :
        /\ deploy.script \in Scripts
        /\ deploy.pc = "prerequisites"
        /\ deploy' = IF present THEN [deploy EXCEPT !.pc = "install"]
                     ELSE ExitWith(deploy, 1)
        /\ WorkerUntouched

\* npm install, npm install -g wrangler, wrangler login
InstallDependencies ==
    \E ok \in BOOLEAN :
        /\ deploy.script \in Scripts
        /\ deploy.pc = "install"
        /\ deploy' = IF ~ok /\ ExitsOnError(deploy.script) THEN ExitWith(deploy, 1)
                     ELSE [deploy EXCEPT !.pc = "names"]
        /\ WorkerUntouched

\* the two prompts for API_NAME and PAGES_NAME, with their defaults
ReadNames ==
    \E api \in ApiNameAnswers, pages \in PagesNameAnswers :
        /\ deploy.script \in Scripts
        /\ deploy.pc = "names"
        /\ deploy' = [deploy EXCEPT
                !.pc = "configure",
                !.apiName = IF api = "" THEN DefaultApiName(deploy.script) ELSE api,
                !.pagesName = IF pages = "" THEN "quran-interface-time" ELSE pages]
        /\ WorkerUntouched

\* deploy.sh: sed -i.bak on wrangler.toml, then the grep that verifies it
SedInPlace ==
    /\ deploy.script \in Scripts
    /\ ExitsOnError(deploy.script)
    /\ deploy.pc = "configure"
    /\ LET content == deploy.wranglerToml.content
           renamed == SedName(content, ShippedName, deploy.apiName)
           edited == [deploy EXCEPT !.wranglerBackup = File(content),
                                    !.wranglerToml = File(renamed),
                                    !.modified = @ \/ renamed # content]
       IN  deploy' = IF renamed = deploy.apiName
                     THEN [edited EXCEPT !.pc = "deployApi"]
                     ELSE ExitWith(edited, 1)
    /\ WorkerUntouched

\* smart script: cp wrangler.toml wrangler.toml.backup and
\* cp public/index.html public/index.html.backup
CreateBackups ==
    /\ deploy.script = "smart"
    /\ deploy.pc = "configure"
    /\ deploy' = [deploy EXCEPT !.pc = "rename",
                                !.wranglerBackup = deploy.wranglerToml,
                                !.indexBackup = deploy.indexHtml]
    /\ WorkerUntouched

\* smart script: sed ... wrangler.toml.backup > wrangler.toml
SedFromBackup ==
    /\ deploy.script = "smart"
    /\ deploy.pc = "rename"
    /\ LET renamed == SedName(deploy.wranglerBackup.content, ShippedName,
                              deploy.apiName)
       IN  deploy' = [deploy EXCEPT
                !.pc = "deployApi",
                !.wranglerToml = File(renamed),
                !.modified = @ \/ renamed # deploy.wranglerToml.content]
    /\ WorkerUntouched

\* deploy.sh: `wrangler deploy`, and `DEPLOY_OUTPUT=$(wrangler deploy 2>&1)`,
\* whose status is that of wrangler: under set -e a failure ends the script
\* before the line that reads $?
WranglerDeploy ==
    \E ok \in BOOLEAN :
        /\ deploy.script \in Scripts
        /\ ExitsOnError(deploy.script)
        /\ deploy.pc = "deployApi"
        /\ LET ran == [deploy EXCEPT
                         !.deployOutcomes = Append(@, IF ok THEN "ok" ELSE "error")]
           IN  deploy' = IF ok
                         THEN [ran EXCEPT !.pc = "interface",
                                          !.workerUrl = Url(deploy.apiName, FALSE)]
                         ELSE ExitWith(ran, 1)
        /\ WorkerUntouched

\* while [ $RETRY_COUNT -le $MAX_RETRIES ]
retryLoopContinuesInclusive(count) == count <= MAX_RETRIES

\* while [ $RETRY_COUNT -lt $MAX_RETRIES ]
retryLoopContinues(count) == count < MAX_RETRIES

\* smart script: one pass of the API deployment loop
AttemptDeploy ==
    \E outcome \in DeployOutcomes, answer \in ApiNameAnswers :
        /\ deploy.script = "smart"
        /\ deploy.pc = "deployApi"
        /\ retryLoopContinues(deploy.retryCount)
        /\ LET ran == [deploy EXCEPT !.deployOutcomes = Append(@, outcome)]
               newName == IF answer = "" THEN deploy.apiName \o "-time" ELSE answer
               renamed == SedName(deploy.wranglerToml.content, deploy.apiName, newName)
           IN  deploy' =
                   CASE outcome = "ok" ->
                            [ran EXCEPT !.pc = "apiLoopLeft",
                                        !.workerUrl = Url(deploy.apiName, FALSE)]
                     [] outcome = "taken" ->
                            [ran EXCEPT !.wranglerToml = File(renamed),
                                        !.modified = @ \/ renamed # deploy.wranglerToml.content,
                                        !.apiName = newName,
                                        !.retryCount = @ + 1]
                     [] outcome = "error" ->
                            [ran EXCEPT !.retryCount = @ + 1]
        /\ WorkerUntouched

\* smart script: the condition of the API deployment loop is false
LeaveDeployLoop ==
    /\ deploy.script = "smart"
    /\ deploy.pc = "deployApi"
    /\ ~retryLoopContinues(deploy.retryCount)
    /\ deploy' = [deploy EXCEPT !.pc = "apiLoopLeft"]
    /\ WorkerUntouched

\* smart script: if [ $RETRY_COUNT -eq $MAX_RETRIES ]
MarkWorkerUrl ==
    /\ deploy.script = "smart"
    /\ deploy.pc = "apiLoopLeft"
    /\ deploy' = IF deploy.retryCount = MAX_RETRIES
                 THEN [deploy EXCEPT !.pc = "interface",
                                     !.workerUrl = Url(deploy.apiName, TRUE)]
                 ELSE [deploy EXCEPT !.pc = "interface"]
    /\ WorkerUntouched

\* deploy.sh: cp public/index.html public/index.html.bak, then awk from the
\* copy into public/index.html
UpdateInterface ==
    /\ deploy.script \in Scripts
    /\ ExitsOnError(deploy.script)
    /\ deploy.pc = "interface"
    /\ LET content == deploy.indexHtml.content
           rewritten == ReplaceUrl(content, deploy.workerUrl)
       IN  deploy' = [deploy EXCEPT !.pc = "deployPages",
                                    !.indexBackup = File(content),
                                    !.indexHtml = File(rewritten),
                                    !.modified = @ \/ rewritten # content]
    /\ WorkerUntouched

\* smart script: sed ... public/index.html.backup > public/index.html
SedInterface ==
    /\ deploy.script = "smart"
    /\ deploy.pc = "interface"
    /\ LET rewritten == ReplaceUrl(deploy.indexBackup.content, deploy.workerUrl)
       IN  deploy' = [deploy EXCEPT
                !.pc = "deployPages",
                !.indexHtml = File(rewritten),
                !.modified = @ \/ rewritten # deploy.indexHtml.content]
    /\ WorkerUntouched

\* deploy.sh lines 1-195: if wrangler pages deploy ...; then ... else ... fi
PagesDeploy ==
    \E ok \in BOOLEAN :
        /\ deploy.script = "deploy"
        /\ deploy.pc = "deployPages"
        /\ deploy' = [deploy EXCEPT
                !.pc = "restore",
                !.pagesOutcomes = Append(@, IF ok THEN "ok" ELSE "error"),
                !.pagesUrl = Url(deploy.pagesName, ~ok)]
        /\ WorkerUntouched

\* deploy.sh lines 197-466: PAGES_OUTPUT=$(wrangler pages deploy ... 2>&1)
\* under set -e
PagesDeployCaptured ==
    \E ok \in BOOLEAN :
        /\ deploy.script = "deployCaptured"
        /\ deploy.pc = "deployPages"
        /\ LET ran == [deploy EXCEPT
                         !.pagesOutcomes = Append(@, IF ok THEN "ok" ELSE "error")]
           IN  deploy' = IF ok
                         THEN [ran EXCEPT !.pc = "restore",
                                          !.pagesUrl = Url(deploy.pagesName, FALSE)]
                         ELSE ExitWith(ran, 1)
        /\ WorkerUntouched

\* smart script: one pass of the Pages deployment loop
AttemptPagesDeploy ==
    \E outcome \in DeployOutcomes, answer \in PagesNameAnswers :
        /\ deploy.script = "smart"
        /\ deploy.pc = "deployPages"
        /\ retryLoopContinues(deploy.pagesRetryCount)
        /\ LET ran == [deploy EXCEPT !.pagesOutcomes = Append(@, outcome)]
               newName == IF answer = "" THEN deploy.pagesName \o "-time" ELSE answer
           IN  deploy' =
                   CASE outcome = "ok" ->
                            [ran EXCEPT !.pc = "pagesLoopLeft",
                                        !.pagesUrl = Url(deploy.pagesName, FALSE)]
                     [] outcome = "taken" ->
                            [ran EXCEPT !.pagesName = newName,
                                        !.pagesRetryCount = @ + 1]
                     [] outcome = "error" ->
                            [ran EXCEPT !.pagesRetryCount = @ + 1]
        /\ WorkerUntouched

\* smart script: the condition of the Pages deployment loop is false
LeavePagesLoop ==
    /\ deploy.script = "smart"
    /\ deploy.pc = "deployPages"
    /\ ~retryLoopContinues(deploy.pagesRetryCount)
    /\ deploy' = [deploy EXCEPT !.pc = "pagesLoopLeft"]
    /\ WorkerUntouched

\* smart script: if [ $PAGES_RETRY_COUNT -eq $MAX_RETRIES ]
MarkPagesUrl ==
    /\ deploy.script = "smart"
    /\ deploy.pc = "pagesLoopLeft"
    /\ deploy' = IF deploy.pagesRetryCount = MAX_RETRIES
                 THEN [deploy EXCEPT !.pc = "restore",
                                     !.pagesUrl = Url(deploy.pagesName, TRUE)]
                 ELSE [deploy EXCEPT !.pc = "restore"]
    /\ WorkerUntouched

\* the last lines of each script: mv of each backup that exists over its
\* original
Restore ==
    /\ deploy.script \in Scripts
    /\ deploy.pc = "restore"
    /\ deploy' = [deploy EXCEPT
            !.pc = "done",
            !.exit = 0,
            !.wranglerToml = IF deploy.wranglerBackup.exists
                             THEN deploy.wranglerBackup ELSE @,
            !.wranglerBackup = NoFile,
            !.indexHtml = IF deploy.indexBackup.exists THEN deploy.indexBackup ELSE @,
            !.indexBackup = NoFile]
    /\ WorkerUntouched

NextDeploy ==
    \/ CheckPrerequisites
    \/ InstallDependencies
    \/ ReadNames
    \/ SedInPlace
    \/ CreateBackups
    \/ SedFromBackup
    \/ WranglerDeploy
    \/ AttemptDeploy
    \/ LeaveDeployLoop
    \/ MarkWorkerUrl
    \/ UpdateInterface
    \/ SedInterface
    \/ PagesDeploy
    \/ PagesDeployCaptured
    \/ AttemptPagesDeploy
    \/ LeavePagesLoop
    \/ MarkPagesUrl
    \/ Restore

\* the shell runs the next command when the one before it has returned
SpecDeploy == InitDeploy /\ [][NextDeploy]_vars /\ WF_vars(NextDeploy)

\* the script has ended
DeployEnded == deploy.pc \in {"done", "exited"}

\* C29: when a script that has modified wrangler.toml or public/index.html
\* ends, both files have their original content and no backup file is left
C29_OriginalFilesRestored ==
    (DeployEnded /\ deploy.modified)
        => /\ deploy.wranglerToml = File(deploy.configName)
           /\ deploy.indexHtml = File(ShippedPage)
           /\ deploy.wranglerBackup = NoFile
           /\ deploy.indexBackup = NoFile

\* every outcome of the sequence is a failure
AllFailed(outcomes) == \A i \in 1..Len(outcomes) : outcomes[i] # "ok"

\* at most MAX_RETRIES attempts, and none after a success
BoundedUntilSuccess(outcomes) ==
    /\ Len(outcomes) <= MAX_RETRIES
    /\ \A i \in 1..(Len(outcomes) - 1) : outcomes[i] # "ok"

\* the positions of the smart script after the check of RETRY_COUNT, and
\* after the check of PAGES_RETRY_COUNT
AfterWorkerUrl == {"interface", "deployPages", "pagesLoopLeft", "restore", "done"}
AfterPagesUrl == {"restore", "done"}

\* the attempts of the smart script are bounded, stop at a success, and the
\* URLs are marked exactly when MAX_RETRIES attempts all failed
RetriesAndMarks ==
    deploy.script = "smart" =>
        /\ BoundedUntilSuccess(deploy.deployOutcomes)
        /\ BoundedUntilSuccess(deploy.pagesOutcomes)
        /\ deploy.pc \in AfterWorkerUrl =>
              (deploy.workerUrl.failed
                  <=> (Len(deploy.deployOutcomes) = MAX_RETRIES
                       /\ AllFailed(deploy.deployOutcomes)))
        /\ deploy.pc \in AfterPagesUrl =>
              (deploy.pagesUrl.failed
                  <=> (Len(deploy.pagesOutcomes) = MAX_RETRIES
                       /\ AllFailed(deploy.pagesOutcomes)))

\* C30: in the smart script each deployment loop is left after at most
\* MAX_RETRIES attempts, makes no attempt after a success, and WORKER_URL and
\* PAGES_URL carry the failure mark iff all MAX_RETRIES attempts failed
C30_RetryLoopsBounded ==
    /\ []RetriesAndMarks
    /\ (deploy.script = "smart" /\ deploy.pc = "deployApi")
           ~> (deploy.pc = "apiLoopLeft")
    /\ (deploy.script = "smart" /\ deploy.pc = "deployPages")
           ~> (deploy.pc = "pagesLoopLeft")

\* the smart script ended after three failed API attempts, the first on a
\* taken name, and a Pages deployment that succeeded at the second attempt
C30_Witness ==
    /\ deploy.script = "smart"
    /\ deploy.pc = "done"
    /\ deploy.deployOutcomes = <<"taken", "error", "error">>
    /\ deploy.workerUrl.failed
    /\ deploy.pagesOutcomes = <<"error", "ok">>
    /\ ~deploy.pagesUrl.failed

====
